---------------------------- MODULE Spec2Model ----------------------------
(***************************************************************************)
(* Model of NetSurf's gopher support: the item-type registry, the menu     *)
(* line parser and HTML generator, and the per-fetch session               *)
(* (content/gopher.c, content/gopher.h), and the curl fetcher that owns   *)
(* the session of a gopher URL (content/fetchers/curl.c).                  *)
(*                                                                         *)
(* A byte is a one-character string; the NUL byte is the token NUL.  A     *)
(* byte buffer is a sequence of bytes.  A C string handed to a callback is *)
(* a TLA+ string, built with \o exactly as snprintf() builds it, so that   *)
(* its length can be compared with the size of the output buffer.          *)
(***************************************************************************)
EXTENDS Integers, Sequences, FiniteSets, TLC

(***************************************************************************)
(* Bytes                                                                   *)
(***************************************************************************)
NUL == "NUL"
TAB == "\t"
CR  == "\r"
LF  == "\n"

Min(S) == CHOOSE x \in S : \A y \in S : x <= y
Max(S) == CHOOSE x \in S : \A y \in S : y <= x

\* The bytes of b from index i (1-based) to its end.
From(b, i) == SubSeq(b, i, Len(b))

\* A buffer of n bytes, all equal to c.
Fill(n, c) == [i \in 1..n |-> c]

\* The C string held by a buffer without NUL bytes.
RECURSIVE Str(_)
Str(b) ==
  IF Len(b) = 0 THEN ""
  ELSE IF Len(b) = 1 THEN b[1]
  ELSE LET h == Len(b) \div 2
       IN  Str(SubSeq(b, 1, h)) \o Str(SubSeq(b, h + 1, Len(b)))

(***************************************************************************)
(* Item types (gopher.h) and the registry (gopher.c)                       *)
(***************************************************************************)
GOPHER_TYPE_NONE       == NUL
GOPHER_TYPE_ENDOFPAGE  == "."
GOPHER_TYPE_TEXTPLAIN  == "0"
GOPHER_TYPE_DIRECTORY  == "1"
GOPHER_TYPE_CSO_SEARCH == "2"
GOPHER_TYPE_ERROR      == "3"
GOPHER_TYPE_BINHEX     == "4"
GOPHER_TYPE_BINARCHIVE == "5"
GOPHER_TYPE_UUENCODED  == "6"
GOPHER_TYPE_QUERY      == "7"
GOPHER_TYPE_TELNET     == "8"
GOPHER_TYPE_BINARY     == "9"
GOPHER_TYPE_GIF        == "g"
GOPHER_TYPE_IMAGE      == "I"
GOPHER_TYPE_TN3270     == "T"
GOPHER_TYPE_HTML       == "h"
GOPHER_TYPE_INFO       == "i"
GOPHER_TYPE_AUDIO      == "s"
GOPHER_TYPE_PDF_ALT    == "d"
GOPHER_TYPE_PNG        == "p"
GOPHER_TYPE_PDF        == "P"
GOPHER_TYPE_BITMAP     == ":"
GOPHER_TYPE_MOVIE      == ";"
GOPHER_TYPE_SOUND      == ";"

\* The table of types with a MIME type, in the order of the source; the
\* terminating { 0, NULL } entry is the end of the sequence.
gopher_type_map ==
  << [type |-> GOPHER_TYPE_TEXTPLAIN, mime |-> "text/plain"],
     [type |-> GOPHER_TYPE_DIRECTORY, mime |-> "text/html;charset=UTF-8"],
     [type |-> GOPHER_TYPE_QUERY,     mime |-> "text/html;charset=UTF-8"],
     [type |-> GOPHER_TYPE_GIF,       mime |-> "image/gif"],
     [type |-> GOPHER_TYPE_HTML,      mime |-> "text/html"],
     [type |-> GOPHER_TYPE_PDF_ALT,   mime |-> "application/pdf"],
     [type |-> GOPHER_TYPE_PDF,       mime |-> "application/pdf"],
     [type |-> GOPHER_TYPE_PNG,       mime |-> "image/png"] >>

\* The MIME type of a gopher type: the first matching entry, or NoMime
\* (the C NULL).
NoMime == "NULL"

\* A faulty variant of gopher_type_to_mime: the loop stops one entry short
\* of the end of the table.
TypeToMimeShort(type) ==
  LET hits == {i \in 1..(Len(gopher_type_map) - 1) :
                 gopher_type_map[i].type = type}
  IN  IF hits = {} THEN NoMime ELSE gopher_type_map[Min(hits)].mime

gopher_type_to_mime(type) ==
  LET hits == {i \in 1..Len(gopher_type_map) : gopher_type_map[i].type = type}
  IN  IF hits = {} THEN NoMime ELSE gopher_type_map[Min(hits)].mime

\* A faulty variant of gopher_need_generate: the case of a query is
\* missing.
NeedGenerateDirectory(type) == type = GOPHER_TYPE_DIRECTORY

gopher_need_generate(type) ==
  type \in {GOPHER_TYPE_DIRECTORY, GOPHER_TYPE_QUERY}

\* The printable bytes, in the order of their codes (but the grave accent,
\* which cannot be written in a string).
Printable ==
  << " ", "!", "\"", "#", "$", "%", "&", "'", "(", ")", "*", "+",
     ",", "-", ".", "/", "0", "1", "2", "3", "4", "5", "6", "7",
     "8", "9", ":", ";", "<", "=", ">", "?", "@", "A", "B", "C",
     "D", "E", "F", "G", "H", "I", "J", "K", "L", "M", "N", "O",
     "P", "Q", "R", "S", "T", "U", "V", "W", "X", "Y", "Z", "[",
     "\\", "]", "^", "_", "a", "b", "c", "d", "e", "f", "g",
     "h", "i", "j", "k", "l", "m", "n", "o", "p", "q", "r", "s",
     "t", "u", "v", "w", "x", "y", "z", "{", "|", "}", "~" >>

\* The item types a session may have: GOPHER_TYPE_NONE and the bytes a URL
\* path may start with.
Tags == {GOPHER_TYPE_NONE} \cup {Printable[i] : i \in 1..Len(Printable)}

\* The path of a URL whose item type is tag.
PathOf(tag) ==
  IF tag = GOPHER_TYPE_NONE THEN <<"/">> ELSE <<"/", tag, "/", "m">>

(***************************************************************************)
(* HTML generation                                                         *)
(***************************************************************************)
\* html_escape_string(): one byte of the string.
EscapeByte(c) ==
  IF c = "<" THEN "&lt;"
  ELSE IF c = ">" THEN "&gt;"
  ELSE IF c = "&" THEN "&amp;"
  ELSE c

\* A faulty variant of html_escape_string: the bytes are copied as they
\* are.
EscapeNothing(b) == Str(b)

\* html_escape_string() of a NUL-free buffer, as a C string.
RECURSIVE html_escape_string(_)
html_escape_string(b) ==
  IF Len(b) = 0 THEN ""
  ELSE IF Len(b) = 1 THEN EscapeByte(b[1])
  ELSE LET h == Len(b) \div 2
       IN  html_escape_string(SubSeq(b, 1, h))
             \o html_escape_string(SubSeq(b, h + 1, Len(b)))

\* A faulty variant of Snprintf: an empty text is taken for an error.
SnprintfSome(text, buffer_length) ==
  [ok |-> Len(text) > 0 /\ Len(text) < buffer_length, buf |-> text]

\* What snprintf() found: the text it would write, and whether it filled the
\* buffer without error (error >= 0 and error < buffer_length).
Snprintf(text, buffer_length) ==
  [ok |-> Len(text) < buffer_length, buf |-> text]

gopher_generate_top(buffer_length) ==
  Snprintf("<html>\n"
        \o "<head>\n"
        \o "<meta http-equiv=\"Content-Type\" content=\"text/html; charset=UTF-8\" />\n"
        \o "<link rel=\"stylesheet\" title=\"Standard\" "
        \o "type=\"text/css\" href=\"resource:internal.css\">\n"
        \o "<link rel=\"icon\" type=\"image/png\" href=\"resource:icons/directory.png\">\n",
           buffer_length)

gopher_generate_title(title, buffer_length) ==
  Snprintf("<title>" \o title \o "</title>\n"
        \o "</head>\n"
        \o "<body id=\"gopher\">\n"
        \o "<div class=\"uplink dontprint\">\n"
        \o "<a href=\"..\">[up]</a>\n"
        \o "<a href=\"/\">[top]</a>\n"
        \o "</div>\n"
        \o "<h1>" \o title \o "</h1>\n",
           buffer_length)

gopher_generate_bottom(buffer_length) ==
  Snprintf("</div>\n" \o "</body>\n" \o "</html>\n", buffer_length)

\* gen_nice_title(): the localised "Index of <url>", the URL escaped.
gen_nice_title(url) == "Index of " \o html_escape_string(url)

(***************************************************************************)
(* One row.  fields is the sequence of the fields the parser has set, in   *)
(* the order of gopher_field; a field beyond its length is a NULL pointer. *)
(***************************************************************************)
FIELD_NAME     == 0
FIELD_SELECTOR == 1
FIELD_HOST     == 2
FIELD_PORT     == 3
FIELD_GPFLAG   == 4
FIELD_COUNT    == 5

IsNull(fields, k) == k + 1 > Len(fields)

\* A field handed to a %s conversion: a NULL pointer is undefined there, and
\* prints as "(null)" where it does not fault.
PrintS(fields, k) == IF IsNull(fields, k) THEN "(null)" ELSE Str(fields[k + 1])

\* strcmp(fields[k], text) != 0 for a non-NULL field.
Differs(fields, k, text) == Str(fields[k + 1]) # text

\* A faulty variant of AltPort: the port is not compared with the default.
AltPortGiven(fields, dflt) ==
  /\ ~IsNull(fields, FIELD_PORT)
  /\ Len(fields[FIELD_PORT + 1]) > 0

\* fields[FIELD_PORT] && fields[FIELD_PORT][0] && strcmp(fields[FIELD_PORT], dflt)
AltPort(fields, dflt) ==
  /\ ~IsNull(fields, FIELD_PORT)
  /\ Len(fields[FIELD_PORT + 1]) > 0
  /\ Differs(fields, FIELD_PORT, dflt)

\* A faulty variant of HasPrefix: only the lengths are compared.
HasPrefixLength(b, prefix) == Len(b) >= Len(prefix)

\* strncmp(b, prefix, SLEN(prefix)) == 0, prefix a sequence of bytes.
HasPrefix(b, prefix) ==
  /\ Len(b) >= Len(prefix)
  /\ SubSeq(b, 1, Len(prefix)) = prefix

\* strrchr(b, '/') followed by username++: the bytes after the last '/', or
\* NoUser (the C NULL) when b holds no '/'.
NoUser == <<NUL>>
Username(b) ==
  LET hits == {i \in 1..Len(b) : b[i] = "/"}
  IN  IF hits = {} THEN NoUser ELSE From(b, Max(hits) + 1)

\* "%s%s%s" of host, ":" and port.
HostPort(fields, alt_port) ==
  PrintS(fields, FIELD_HOST)
    \o (IF alt_port THEN ":" ELSE "")
    \o (IF alt_port THEN PrintS(fields, FIELD_PORT) ELSE "")

\* "gopher://%s%s%s/%c%s"
GopherUrl(type, fields, alt_port) ==
  "gopher://" \o HostPort(fields, alt_port) \o "/" \o type
    \o PrintS(fields, FIELD_SELECTOR)

\* The common row: a link to the item, with a class.
LinkRow(type, fields, alt_port, class, nice_text) ==
  "<a href=\"" \o GopherUrl(type, fields, alt_port) \o "\">"
    \o "<span class=\"" \o class \o "\">" \o nice_text \o "</span></a>"
    \o "<br/>" \o "\n"

\* telnet: and tn3270: rows.
TelnetRow(scheme, fields, nice_text) ==
  LET alt_port == AltPort(fields, "23")
      username == Username(fields[FIELD_SELECTOR + 1])
  IN  "<a href=\"" \o scheme \o "://"
        \o (IF username # NoUser THEN Str(username) ELSE "")
        \o (IF username # NoUser THEN "@" ELSE "")
        \o HostPort(fields, alt_port) \o "\">"
        \o "<span class=\"telnet\">" \o nice_text \o "</span></a>"
        \o "<br/>" \o "\n"

\* A link followed by a player element on the same URL.
MediaRow(type, fields, alt_port, class, element, nice_text) ==
  "<a href=\"" \o GopherUrl(type, fields, alt_port) \o "\">"
    \o "<span class=\"" \o class \o "\">" \o nice_text \o "</span></a>"
    \o "<" \o element \o " src=\"" \o GopherUrl(type, fields, alt_port)
    \o "\" controls=\"controls\">"
    \o "<span>[player]</span></" \o element \o ">"
    \o "<br/>" \o "\n"

\* The text snprintf() is asked to write for a row of the given type.
RowText(type, fields, inline_images) ==
  LET alt_port  == AltPort(fields, "70")
      nice_text == html_escape_string(fields[FIELD_NAME + 1])
      sel       == fields[FIELD_SELECTOR + 1]
  IN  CASE type = GOPHER_TYPE_ENDOFPAGE -> ""
        [] type = GOPHER_TYPE_TEXTPLAIN ->
             LinkRow(type, fields, alt_port, "text", nice_text)
        [] type \in {GOPHER_TYPE_BINARY, GOPHER_TYPE_BINHEX,
                     GOPHER_TYPE_BINARCHIVE, GOPHER_TYPE_UUENCODED} ->
             LinkRow(type, fields, alt_port, "binary", nice_text)
        [] type = GOPHER_TYPE_DIRECTORY ->
             LinkRow(type, fields, alt_port, "dir", nice_text)
        [] type = GOPHER_TYPE_ERROR ->
             "<span class=\"error\">" \o nice_text \o "</span><br/>" \o "\n"
        [] type = GOPHER_TYPE_QUERY ->
             "<form method=\"get\" action=\""
               \o GopherUrl(type, fields, alt_port) \o "\">"
               \o "<span class=\"query\">"
               \o "<label>" \o nice_text \o " "
               \o "<input name=\"\" type=\"text\" align=\"right\" />"
               \o "</label>"
               \o "</span></form>"
               \o "<br/>" \o "\n"
        [] type = GOPHER_TYPE_TELNET -> TelnetRow("telnet", fields, nice_text)
        [] type = GOPHER_TYPE_TN3270 -> TelnetRow("tn3270", fields, nice_text)
        [] type = GOPHER_TYPE_CSO_SEARCH ->
             "<a href=\"cso://" \o HostPort(fields, AltPort(fields, "105")) \o "\">"
               \o "<span class=\"cso\">" \o nice_text \o "</span></a>"
               \o "<br/>" \o "\n"
        [] type \in {GOPHER_TYPE_GIF, GOPHER_TYPE_IMAGE,
                     GOPHER_TYPE_PNG, GOPHER_TYPE_BITMAP} ->
             IF inline_images
             THEN "<a href=\"" \o GopherUrl(type, fields, alt_port) \o "\">"
                    \o "<span class=\"img\">" \o nice_text
                    \o "<img src=\"" \o GopherUrl(type, fields, alt_port)
                    \o "\" alt=\"" \o nice_text \o "\"/>"
                    \o "</span>"
                    \o "</a>"
                    \o "<br/>" \o "\n"
             ELSE LinkRow(type, fields, alt_port, "img", nice_text)
        [] type = GOPHER_TYPE_HTML ->
             IF ~IsNull(fields, FIELD_SELECTOR)
                  /\ (HasPrefix(sel, <<"U", "R", "L", ":">>)
                        \/ HasPrefix(sel, <<"/", "U", "R", "L", ":">>))
             THEN "<a href=\""
                    \o Str(IF HasPrefix(sel, <<"/", "U", "R", "L", ":">>)
                           THEN From(sel, 6) ELSE From(sel, 5))
                    \o "\">"
                    \o "<span class=\"html\">" \o nice_text \o "</span></a>"
                    \o "<br/>" \o "\n"
             ELSE LinkRow(type, fields, alt_port, "html", nice_text)
        [] type = GOPHER_TYPE_INFO ->
             \* (fields[FIELD_SELECTOR] && strcmp(..., "TITLE")) == 0
             IF ~(~IsNull(fields, FIELD_SELECTOR)
                    /\ Differs(fields, FIELD_SELECTOR, "TITLE"))
             THEN "<h2>" \o nice_text \o "</h2><br/>" \o "\n"
             ELSE "<span class=\"info\">" \o nice_text \o "</span><br/>" \o "\n"
        [] type = GOPHER_TYPE_AUDIO \/ type = GOPHER_TYPE_SOUND ->
             MediaRow(type, fields, alt_port, "audio", "audio", nice_text)
        [] type \in {GOPHER_TYPE_PDF, GOPHER_TYPE_PDF_ALT} ->
             LinkRow(type, fields, alt_port, "other", nice_text)
        [] OTHER ->
             LinkRow(type, fields, alt_port, "unknown", nice_text)

\* The NULL pointers a row of this type hands to the C library: "deref" when
\* strrchr() reads through a NULL selector (a fault), "print" when a %s
\* conversion is given one (undefined: "(null)" or a fault), else "none".
RowNulls(type, fields) ==
  LET usesNone == type \in {GOPHER_TYPE_ENDOFPAGE, GOPHER_TYPE_ERROR,
                            GOPHER_TYPE_INFO}
      redirect == /\ type = GOPHER_TYPE_HTML
                  /\ ~IsNull(fields, FIELD_SELECTOR)
                  /\ \/ HasPrefix(fields[FIELD_SELECTOR + 1], <<"U", "R", "L", ":">>)
                     \/ HasPrefix(fields[FIELD_SELECTOR + 1],
                                  <<"/", "U", "R", "L", ":">>)
  IN  IF usesNone \/ redirect THEN "none"
      ELSE IF type \in {GOPHER_TYPE_TELNET, GOPHER_TYPE_TN3270}
                /\ IsNull(fields, FIELD_SELECTOR) THEN "deref"
      ELSE IF IsNull(fields, FIELD_HOST) THEN "print"
      ELSE "none"

\* gopher_generate_row_internal(): ok iff the buffer was filled without
\* error; buf is the buffer's C string; nulls as RowNulls.
RowResult(r, nulls) == [ok |-> r.ok, buf |-> r.buf, nulls |-> nulls]

gopher_generate_row_internal(type, fields, buffer_length, inline_images) ==
  RowResult(IF RowNulls(type, fields) = "deref"
            THEN [ok |-> FALSE, buf |-> ""]
            ELSE Snprintf(RowText(type, fields, inline_images), buffer_length),
            RowNulls(type, fields))

(***************************************************************************)
(* The line parser.  view is the bytes at *data, *size of them.  The       *)
(* result gives ok (the value returned), adv (by how many bytes *data was  *)
(* advanced), size (the value left in *size), buf (the row's HTML) and     *)
(* nulls (see RowNulls).                                                   *)
(***************************************************************************)
IsEol(c) == c = LF \/ c = CR

\* The elements of a finite set of integers, in increasing order.
RECURSIVE Sorted(_)
Sorted(S) == IF S = {} THEN <<>> ELSE <<Min(S)>> \o Sorted(S \ {Min(S)})

\* A faulty variant of FieldsOf: every TAB closes a field.
FieldsOfEveryTab(view, t, e) ==
  LET seps == Sorted({i \in (t + 1)..(e - 1) : view[i] = TAB})
      from(k) == IF k = 1 THEN t + 1 ELSE seps[k - 1] + 1
      to(k)   == IF k = Len(seps) + 1 THEN e - 1 ELSE seps[k] - 1
  IN  [k \in 1..(Len(seps) + 1) |-> SubSeq(view, from(k), to(k))]

\* The fields of a line whose type byte is at t and whose terminator is at e:
\* a TAB closes a field while field < FIELD_GPFLAG, later TABs stay in the
\* last field.
FieldsOf(view, t, e) ==
  LET tabs == {i \in (t + 1)..(e - 1) : view[i] = TAB}
      seps == Sorted({i \in tabs :
                       Cardinality({j \in tabs : j < i}) < FIELD_GPFLAG})
      from(k) == IF k = 1 THEN t + 1 ELSE seps[k - 1] + 1
      to(k)   == IF k = Len(seps) + 1 THEN e - 1 ELSE seps[k] - 1
  IN  [k \in 1..(Len(seps) + 1) |-> SubSeq(view, from(k), to(k))]

NoRow(view) ==
  [ok |-> FALSE, adv |-> 0, size |-> Len(view), buf |-> "", nulls |-> "none"]

\* A faulty variant of RowEnd: the byte that ends the line is not consumed.
RowEndBefore(view, r, end) ==
  [ok    |-> r.ok,
   adv   |-> end - 1,
   size  |-> IF r.ok THEN Len(view) - end + 1 ELSE Len(view),
   buf   |-> r.buf,
   nulls |-> r.nulls]

\* The end of gopher_generate_row(): *data = p always, *size = sz only if
\* the row was generated; end is the last byte consumed.
RowEnd(view, r, end) ==
  [ok    |-> r.ok,
   adv   |-> end,
   size  |-> IF r.ok THEN Len(view) - end ELSE Len(view),
   buf   |-> r.buf,
   nulls |-> r.nulls]

\* A faulty variant of RowAt: a terminator at the end of the view is not
\* waited on.
RowAtOnce(view, t, e, buffer_length, inline_images) ==
  RowEnd(view,
         gopher_generate_row_internal(view[t], FieldsOf(view, t, e),
                                      buffer_length, inline_images),
         IF e < Len(view) /\ view[e + 1] = LF THEN e + 1 ELSE e)

\* The terminator found at e, for a line whose type byte is at t.
RowAt(view, t, e, buffer_length, inline_images) ==
  \* sz < 2: the LF should be in the next buffer
  IF Len(view) - e + 1 < 2 THEN NoRow(view)
  ELSE RowEnd(view,
              gopher_generate_row_internal(view[t], FieldsOf(view, t, e),
                                           buffer_length, inline_images),
              \* sz--; p++; if (sz && *p == '\n') { p++; sz--; }
              IF view[e + 1] = LF THEN e + 1 ELSE e)

\* The loop from the type byte at t up to lim, looking for the terminator.
RowFrom(view, t, lim, buffer_length, inline_images) ==
  LET es == {i \in (t + 1)..lim : IsEol(view[i])}
  IN  IF es = {} THEN NoRow(view)
      ELSE RowAt(view, t, Min(es), buffer_length, inline_images)

\* The loop up to lim: a CR or LF where the type is expected forces
\* reparsing the type.
RowUpTo(view, lim, buffer_length, inline_images) ==
  LET ts == {i \in 1..lim : ~IsEol(view[i])}
  IN  IF ts = {} THEN NoRow(view)
      ELSE RowFrom(view, Min(ts), lim, buffer_length, inline_images)

\* A faulty variant of LoopLimit: a NUL does not stop the loop.
LoopLimitSize(view) == Len(view)

\* The loop runs while sz && *p: it stops before the first NUL.
LoopLimit(view) ==
  LET nuls == {i \in 1..Len(view) : view[i] = NUL}
  IN  IF nuls = {} THEN Len(view) ELSE Min(nuls) - 1

gopher_generate_row(view, buffer_length, inline_images) ==
  RowUpTo(view, LoopLimit(view), buffer_length, inline_images)

(***************************************************************************)
(* The session (struct gopher_state) and its operations.  A session is a   *)
(* record: type, head_done, cached, input (the first cached bytes of the   *)
(* input buffer) and input_size (the size of the block input points to, 0  *)
(* for a NULL pointer).  A callback is a record: type (FETCH_HEADER or     *)
(* FETCH_DATA), buf (its payload) and gen (the generator that filled buf). *)
(***************************************************************************)
BUFFER_LENGTH == 4096

\* nsurl_access(url) for a URL with the given path.
UrlOf(path) == <<"g", "o", "p", "h", "e", "r", ":", "/", "/", "h">> \o path

\* url_gopher_type(): the byte after the path's leading '/', if any.
url_gopher_type(path) ==
  IF Len(path) >= 2 /\ path[1] = "/" THEN path[2] ELSE GOPHER_TYPE_NONE

gopher_state_create(path) ==
  [type       |-> url_gopher_type(path),
   head_done  |-> FALSE,
   cached     |-> 0,
   input      |-> <<>>,
   input_size |-> 0]

Data(buf, gen)   == [type |-> "FETCH_DATA", buf |-> buf, gen |-> gen]
Header(buf, gen) == [type |-> "FETCH_HEADER", buf |-> buf, gen |-> gen]

\* The callbacks of a generator: one FETCH_DATA if it filled the buffer.
Sent(r, gen) == IF r.ok THEN <<Data(r.buf, gen)>> ELSE <<>>

\* One call of gopher_generate_row() by the loop, for the record: the value
\* returned, by how much *data advanced, *size afterwards, and the length
\* of the view it was given.
RowCall(r, view) ==
  [ok |-> r.ok, adv |-> r.adv, size |-> r.size, len |-> Len(view)]

\* The while loop of gopher_fetch_data() over the view: the rows sent, by
\* how much p has advanced, the value of left, whether the process faulted
\* on a NULL pointer, and the calls of gopher_generate_row() made.  env
\* gives what the environment decides: null_prints (%s of NULL prints
\* "(null)" rather than faulting) and inline_images (the
\* gopher_inline_images option).
RowsAnd(r, view, rest) ==
  [out   |-> <<Data(r.buf, "row")>> \o rest.out,
   adv   |-> r.adv + rest.adv,
   left  |-> rest.left,
   fault |-> rest.fault,
   calls |-> <<RowCall(r, view)>> \o rest.calls]

RowFaults(r, env) ==
  \/ r.nulls = "deref"
  \/ r.nulls = "print" /\ ~env.null_prints

RECURSIVE RowLoop(_, _)
\* A faulty variant of RowLoopStep: an empty row ends the loop.
RowLoopStepPage(view, env, r) ==
  IF RowFaults(r, env)
  THEN [out |-> <<>>, adv |-> 0, left |-> Len(view), fault |-> TRUE,
        calls |-> <<>>]
  ELSE IF ~r.ok
  THEN [out |-> <<>>, adv |-> r.adv, left |-> r.size, fault |-> FALSE,
        calls |-> <<RowCall(r, view)>>]
  ELSE IF r.buf = ""
  THEN [out |-> <<Data(r.buf, "row")>>, adv |-> r.adv, left |-> r.size,
        fault |-> FALSE, calls |-> <<RowCall(r, view)>>]
  ELSE RowsAnd(r, view, RowLoop(From(view, r.adv + 1), env))

RowLoopStep(view, env, r) ==
  IF RowFaults(r, env)
  THEN [out |-> <<>>, adv |-> 0, left |-> Len(view), fault |-> TRUE,
        calls |-> <<>>]
  ELSE IF ~r.ok
  THEN [out |-> <<>>, adv |-> r.adv, left |-> r.size, fault |-> FALSE,
        calls |-> <<RowCall(r, view)>>]
  ELSE RowsAnd(r, view, RowLoop(From(view, r.adv + 1), env))

RowLoop(view, env) ==
  RowLoopStep(view, env,
              gopher_generate_row(view, BUFFER_LENGTH, env.inline_images))

\* memmove(s->input, p, left): the bytes at p, and past the end of the
\* buffer whatever is found there.
Remainder(view, adv, left, fill) ==
  IF left <= Len(view) - adv
  THEN SubSeq(view, adv + 1, adv + left)
  ELSE From(view, adv + 1) \o Fill(left - (Len(view) - adv), fill)

\* A faulty variant of Returned: the bytes the parser advanced over.
ReturnedParsed(size, rows) == rows.adv

\* return size;
Returned(size, rows) == size

\* if (!s->input) s->input = malloc(left): whether the end of
\* gopher_fetch_data() allocates, given the loop's result.
Mallocs(isize, rows) == ~rows.fault /\ rows.left > 0 /\ isize = 0

\* The end of gopher_fetch_data() for size > 0, after the loop: isize is
\* the size of the block s->input points to when the remainder is moved
\* there (0: it is NULL and malloc(left) is called).  When malloc() fails
\* (nomem) memmove() writes through the NULL pointer it returned.
FetchEnd(s, size, view, isize, head, rows, fill, nomem) ==
  [s     |-> [type       |-> s.type,
              head_done  |-> TRUE,
              cached     |-> IF rows.fault \/ (nomem /\ Mallocs(isize, rows))
                             THEN s.cached ELSE rows.left,
              input      |-> IF rows.fault \/ (nomem /\ Mallocs(isize, rows))
                             THEN s.input
                             ELSE IF rows.left > 0
                             THEN Remainder(view, rows.adv, rows.left, fill)
                             ELSE <<>>,
              input_size |-> IF rows.fault THEN isize
                             ELSE IF rows.left > 0 /\ isize = 0 /\ ~nomem
                             THEN rows.left
                             ELSE isize],
   out   |-> head \o rows.out,
   ret   |-> Returned(size, rows),
   fault |-> rows.fault \/ (nomem /\ Mallocs(isize, rows)),
   over  |-> IF ~rows.fault /\ rows.left > Len(view) - rows.adv
             THEN rows.left - (Len(view) - rows.adv) ELSE 0,
   wild  |-> IF ~rows.fault /\ isize > 0 /\ rows.left > isize
             THEN rows.left - isize ELSE 0,
   calls |-> rows.calls,
   alloc |-> s.cached > 0 \/ Mallocs(isize, rows),
   nomem |-> nomem /\ Mallocs(isize, rows)]

\* A faulty variant of Prologue: head_done is not consulted.
PrologueAlways(s, path) ==
  Sent(gopher_generate_top(BUFFER_LENGTH), "top")
    \o Sent(gopher_generate_title(gen_nice_title(UrlOf(path)),
                                  BUFFER_LENGTH), "title")

\* The prologue: top then title, unless head_done.
Prologue(s, path) ==
  IF ~s.head_done
  THEN Sent(gopher_generate_top(BUFFER_LENGTH), "top")
         \o Sent(gopher_generate_title(gen_nice_title(UrlOf(path)),
                                       BUFFER_LENGTH), "title")
  ELSE <<>>

\* A faulty variant of Epilogue: the type is not looked at.
EpilogueAlways(s) == Sent(gopher_generate_bottom(BUFFER_LENGTH), "bottom")

\* The epilogue, sent at the end of the data.
Epilogue(s) ==
  IF s.type # GOPHER_TYPE_NONE /\ gopher_need_generate(s.type)
  THEN Sent(gopher_generate_bottom(BUFFER_LENGTH), "bottom")
  ELSE <<>>

\* if (s->cached) { realloc; memcpy; p = s->input; left += s->cached }
FetchView(s, data) == IF s.cached > 0 THEN s.input \o data ELSE data

\* gopher_fetch_data(s, data, size) with size = Len(data).  The result gives
\* the session afterwards, the callbacks sent, the value returned, whether
\* the process faulted, over (the number of bytes memmove() read past the
\* end of the buffer; env.fill is the byte it found there), wild (the
\* number of bytes it wrote past the end of the block at s->input), the
\* calls of gopher_generate_row() made, alloc (malloc() or realloc() was
\* called) and nomem (it was called and failed, as env.nomem decides).
\* When realloc() fails, memcpy() writes through the NULL pointer it
\* returned, before anything is sent.
gopher_fetch_data(s, path, data, env) ==
  IF Len(data) = 0
  THEN [s |-> s, out |-> Epilogue(s), ret |-> 0, fault |-> FALSE,
        over |-> 0, wild |-> 0, calls |-> <<>>, alloc |-> FALSE,
        nomem |-> FALSE]
  ELSE IF s.cached > 0 /\ env.nomem
  THEN [s |-> s, out |-> <<>>, ret |-> 0, fault |-> TRUE,
        over |-> 0, wild |-> 0, calls |-> <<>>, alloc |-> TRUE,
        nomem |-> TRUE]
  ELSE FetchEnd(s, Len(data), FetchView(s, data),
                IF s.cached > 0 THEN s.cached + Len(data) ELSE s.input_size,
                Prologue(s, path),
                RowLoop(FetchView(s, data), env),
                env.fill, env.nomem)

\* A faulty variant of gopher_probe_mime: the header has no line end.
ProbeMimeBare(s) ==
  LET mime == gopher_type_to_mime(s.type)
  IN  IF mime # NoMime
      THEN [out |-> <<Header("Content-type: " \o mime, "mime")>>,
            ret |-> TRUE]
      ELSE [out |-> <<>>, ret |-> FALSE]

\* gopher_probe_mime(): the callbacks sent and the value returned.
gopher_probe_mime(s) ==
  LET mime == gopher_type_to_mime(s.type)
  IN  IF mime # NoMime
      THEN [out |-> <<Header("Content-type: " \o mime \o "\r\n", "mime")>>,
            ret |-> TRUE]
      ELSE [out |-> <<>>, ret |-> FALSE]

\* A faulty variant of ErrorPage: the type is left as it was.
ErrorPageKept(s) == s

\* s->type = GOPHER_TYPE_DIRECTORY, for the page of an error.
ErrorPage(s) == [s EXCEPT !.type = GOPHER_TYPE_DIRECTORY]

\* A faulty variant of SamePath: the paths are not compared.
SamePathAny(data, start, path) == TRUE

\* strncmp(&data[i], lwc_string_data(path) + 2, lwc_string_length(path) - 2)
\* is 0, i the 0-based index start.
SamePath(data, start, path) ==
  SubSeq(data, start + 1, start + Len(path) - 2) = From(path, 3)

\* A faulty variant of Code: the type is set on every return.
CodeAsPage(s, code) == [s |-> ErrorPage(s), out |-> <<>>, ret |-> code]

\* The result of gopher_get_http_code() when it leaves the session alone.
Code(s, code) == [s |-> s, out |-> <<>>, ret |-> code]

\* The careful check of gopher_get_http_code(), with the opening quote
\* expected at the 0-based index open.
CarefulCode(s, path, data, open) ==
  IF open >= Len(data) THEN Code(s, 200)
  ELSE IF data[open + 1] # "'" THEN Code(s, 200)
  ELSE IF \/ Len(path) < 2
          \/ Len(data) - (open + 1) < Len(path)
          \/ ~SamePath(data, open + 1, path)
       THEN Code(s, 200)
  ELSE IF open + 1 + Len(path) - 2 >= Len(data) THEN Code(s, 200)
  ELSE IF data[open + 1 + Len(path) - 2 + 1] # "'" THEN Code(s, 200)
  ELSE [s   |-> ErrorPage(s),
        out |-> gopher_probe_mime(ErrorPage(s)).out,
        ret |-> 404]

\* The check of gopher_get_http_code() for a type '3' item in the first
\* bytes, size > 0 of them.
ErrorCode(s, path, data) ==
  IF data[1] # GOPHER_TYPE_ERROR THEN Code(s, 200)
  ELSE IF gopher_need_generate(s.type) THEN Code(s, 404)
  ELSE IF 1 >= Len(data) THEN Code(s, 200)
  ELSE CarefulCode(s, path, data, IF data[2] = " " THEN 2 ELSE 1)

\* A faulty variant of gopher_get_http_code(): the size is checked before
\* the type.
SizeFirst(s, path, data) ==
  IF Len(data) = 0 THEN Code(s, 0)
  ELSE IF s.type = GOPHER_TYPE_NONE THEN Code(s, 400)
  ELSE ErrorCode(s, path, data)

\* gopher_get_http_code(s, data, size) with size = Len(data): the session
\* afterwards, the callbacks sent and the code returned.
gopher_get_http_code(s, path, data) ==
  IF s.type = GOPHER_TYPE_NONE THEN Code(s, 400)
  ELSE IF Len(data) = 0 THEN Code(s, 0)
  ELSE ErrorCode(s, path, data)

(***************************************************************************)
(* The state machine: one session, driven by its owner through             *)
(* gopher_probe_mime(), gopher_get_http_code() and gopher_fetch_data().    *)
(***************************************************************************)
VARIABLES
  path,      \* the path of the fetched URL
  env,       \* what the build and the options decide (see RowLoop)
  s,         \* the session
  out,       \* every callback sent to fetch_handle so far, in order
  faulted,   \* the process has faulted
  fed,       \* history: the chunks fed so far, as indices into Chunks
  ops,       \* history: the calls made so far, by name
  last,      \* history: the last call, what it was given and what it did
  ids,       \* the chunks the server may send, as indices into Chunks
  f          \* the fetch that owns the session (struct curl_fetch_info)

vars == <<path, env, s, out, faulted, fed, ops, last, ids, f>>

\* Bounds of the model: the number of calls of each kind, and of all calls.
MaxFeed   == 2
MaxEnd    == 2
MaxProbe  == 1
MaxStatus == 1
MaxCalls  == 5

\* URL paths: a menu, a query, a text file, and one without a type.
Paths == { <<"/", "1", "/", "m">>, <<"/", "7", "/", "m">>,
           <<"/", "0", "/", "m">>, <<"/">> }

Envs == [null_prints : BOOLEAN, inline_images : BOOLEAN]

\* What memmove() may find past the end of a buffer: a NUL, a line
\* terminator, or any other byte.
FillBytes == {NUL, LF, "i"}

\* A complete line whose row does not fit the output buffer: each '&' of
\* its name takes five bytes there.
LongLine ==
  <<"1">> \o Fill(BUFFER_LENGTH \div 5, "&")
    \o <<TAB, "/", "s", TAB, "h", TAB, "7", "0", CR, LF>>

\* The chunks of a stream: a full line, the end-of-page line, a line
\* without its terminator, the end of a line, an image with a name only, a
\* long line.
StreamChunks ==
  << <<"1", "a", TAB, "/", "s", TAB, "h", TAB, "7", "0", CR, LF>>,
     <<".", CR, LF>>,
     <<"0", "<", TAB, "/", "t", TAB, "h">>,
     <<TAB, "7", "1", CR, LF>>,
     <<"I", "e", CR, LF>>,
     LongLine >>

\* The first bytes of a response reporting that the quoted selector does
\* not exist.
ErrorLine(quoted) ==
  <<"3", " ", "'">> \o quoted
    \o <<"'", " ", "d", "o", "e", "s", " ", "n", "o", "t", " ",
         "e", "x", "i", "s", "t", TAB, "e", "r", "r", "o", "r", ".",
         "h", "o", "s", "t", TAB, "1", CR, LF>>

\* The chunks of an error response: the error line whole, and cut in two.
ErrorChunks ==
  << ErrorLine(<<"/", "m">>),
     SubSeq(ErrorLine(<<"/", "m">>), 1, 4),
     From(ErrorLine(<<"/", "m">>), 5) >>

\* The names a line may have, each with its text in HTML, and the ports:
\* none, empty, the defaults of the schemes, and another.
NameCases ==
  << [name |-> <<"a">>, nice |-> "a"],
     [name |-> <<"<">>, nice |-> "&lt;"],
     [name |-> <<"a", "&", "b", ">">>, nice |-> "a&amp;b&gt;"],
     [name |-> <<>>, nice |-> ""] >>

PortCases ==
  << [given |-> FALSE, port |-> <<>>, text |-> ""],
     [given |-> TRUE, port |-> <<>>, text |-> ""],
     [given |-> TRUE, port |-> <<"7", "0">>, text |-> "70"],
     [given |-> TRUE, port |-> <<"7", "1">>, text |-> "71"],
     [given |-> TRUE, port |-> <<"2", "3">>, text |-> "23"],
     [given |-> TRUE, port |-> <<"1", "0", "5">>, text |-> "105"] >>

\* The lines of one type: every name with port 70, and every other port
\* with the first name; each is <<index in NameCases, index in PortCases>>.
Variants ==
  << <<1, 3>>, <<2, 3>>, <<3, 3>>, <<4, 3>>,
     <<1, 1>>, <<1, 2>>, <<1, 4>>, <<1, 5>>, <<1, 6>> >>

\* The lines of a menu, one per printable type byte and variant.
RowCases ==
  [k \in 1..(Len(Printable) * Len(Variants)) |->
     [type |-> Printable[((k - 1) \div Len(Variants)) + 1],
      name |-> NameCases[Variants[((k - 1) % Len(Variants)) + 1][1]],
      port |-> PortCases[Variants[((k - 1) % Len(Variants)) + 1][2]]]]

\* The bytes of a line: type, name, selector "s", host "h", port if given.
LineOf(c) ==
  <<c.type>> \o c.name.name \o <<TAB, "s", TAB, "h">>
    \o (IF c.port.given THEN <<TAB>> \o c.port.port ELSE <<>>)
    \o <<CR, LF>>

RowChunks == [k \in 1..Len(RowCases) |-> LineOf(RowCases[k])]

\* The lines the parser is tried on.  A line is a record: lead (the bytes
\* before its type byte), type, pieces (the runs of bytes that its TABs
\* separate) and term (its terminator).
Pieces ==
  << <<"a">>, <<"s">>, <<"h">>, <<"7", "0">>, <<"+">>, <<"x">>, <<"y">> >>

Terms == << <<CR, LF>>, <<LF>>, <<CR>> >>
Leads == << <<>>, <<CR>>, <<LF>>, <<NUL>> >>

Selectors ==
  << <<"T", "I", "T", "L", "E">>,
     <<>>,
     <<"U", "R", "L", ":", "u">>,
     <<"/", "U", "R", "L", ":", "u">>,
     <<"/", "d", "o", "c", "s">>,
     <<"U", "R", "L">>,
     <<"/", "s", "r", "v", "/", "u", "s", "e", "r">>,
     <<"/">>,
     <<"u", "s", "e", "r">> >>

\* Every printable type with one to seven pieces, ended by CR LF.
CountCases ==
  [k \in 1..(Len(Printable) * Len(Pieces)) |->
     [lead   |-> <<>>,
      type   |-> Printable[((k - 1) \div Len(Pieces)) + 1],
      pieces |-> SubSeq(Pieces, 1, ((k - 1) % Len(Pieces)) + 1),
      term   |-> Terms[1]]]

\* A directory and an information line with each terminator after each
\* lead.
TermTypes == <<"1", "i">>
TermCases ==
  [k \in 1..(Len(TermTypes) * Len(Terms) * Len(Leads)) |->
     [lead   |-> Leads[((k - 1) % Len(Leads)) + 1],
      type   |-> TermTypes[((k - 1) \div (Len(Terms) * Len(Leads))) + 1],
      pieces |-> SubSeq(Pieces, 1, 4),
      term   |-> Terms[(((k - 1) \div Len(Leads)) % Len(Terms)) + 1]]]

\* The types whose row depends on the selector, with each selector and the
\* ports 70, 71 and 23.
SelTypes == <<"i", "h", "8", "T">>
SelPorts == << <<"7", "0">>, <<"7", "1">>, <<"2", "3">> >>
SelCases ==
  [k \in 1..(Len(SelTypes) * Len(Selectors) * Len(SelPorts)) |->
     [lead   |-> <<>>,
      type   |-> SelTypes[((k - 1) \div (Len(Selectors) * Len(SelPorts))) + 1],
      pieces |-> << <<"a">>,
                    Selectors[(((k - 1) \div Len(SelPorts)) % Len(Selectors)) + 1],
                    <<"h">>,
                    SelPorts[((k - 1) % Len(SelPorts)) + 1] >>,
      term   |-> Terms[1]]]

\* The line that ends a menu: a dot and nothing else.
DotCases ==
  << [lead |-> <<>>, type |-> GOPHER_TYPE_ENDOFPAGE, pieces |-> << <<>> >>,
      term |-> Terms[1]] >>

LineCases == CountCases \o TermCases \o SelCases \o DotCases

\* The pieces with a TAB between each two.
RECURSIVE Joined(_)
Joined(pieces) ==
  IF Len(pieces) = 1 THEN pieces[1]
  ELSE pieces[1] \o <<TAB>> \o Joined(Tail(pieces))

\* The bytes of a line.
BytesOf(c) == c.lead \o <<c.type>> \o Joined(c.pieces) \o c.term

LineChunks == [k \in 1..Len(LineCases) |-> BytesOf(LineCases[k])]

\* A chunk that holds a line feed alone, and one that holds a full line.
TailChunks == << <<LF>>, <<"0", "b", TAB, "t", TAB, "h", TAB, "7", "0", CR, LF>> >>

\* A line of seventeen bytes without its end, a line with a NUL in its
\* selector, two error lines, the first of two bytes (its name is empty
\* and a CR alone ends it), and the end-of-page line followed by a full
\* line.
CarryChunks ==
  << <<"1", "l", "o", "n", "g", "e", "r", TAB, "/", "s", "e", "l", TAB,
       "h", "o", "s", "t">>,
     <<"1", "a", TAB, "s", NUL, TAB, "h", TAB, "7", "0", CR, LF>>,
     <<"3", CR, "3", CR, LF>>,
     <<".", CR, LF,
       "0", "b", TAB, "t", TAB, "h", TAB, "7", "0", CR, LF>> >>

\* Every chunk a server may send, and the indices of those of each kind.
Chunks ==
  StreamChunks \o ErrorChunks \o RowChunks \o LineChunks \o TailChunks
    \o CarryChunks

\* The chunks of a stream whose lines all fit the output buffer, all chunks
\* of a stream, and the chunks of an error response.
ShortIds == {i \in 1..Len(StreamChunks) :
               Len(Chunks[i]) < BUFFER_LENGTH \div 5}
AllIds   == 1..Len(StreamChunks)
ErrorIds == (Len(StreamChunks) + 1)..(Len(StreamChunks) + Len(ErrorChunks))
RowIds   == (Len(StreamChunks) + Len(ErrorChunks) + 1)
              ..(Len(StreamChunks) + Len(ErrorChunks) + Len(RowChunks))
LineIds  == (Len(StreamChunks) + Len(ErrorChunks) + Len(RowChunks) + 1)
              ..(Len(Chunks) - Len(TailChunks) - Len(CarryChunks))
TailIds  == (Len(Chunks) - Len(TailChunks) - Len(CarryChunks) + 1)
              ..(Len(Chunks) - Len(CarryChunks))
CarryIds == (Len(Chunks) - Len(CarryChunks) + 1)..Len(Chunks)

\* The line that the chunk id of RowIds holds.
RowCaseOf(id) == RowCases[id - Len(StreamChunks) - Len(ErrorChunks)]

\* The line that the chunk id of LineIds holds.
LineCaseOf(id) ==
  LineCases[id - Len(StreamChunks) - Len(ErrorChunks) - Len(RowChunks)]

\* The bytes of the chunks that seq names, in order.
RECURSIVE StreamOf(_)
StreamOf(seq) ==
  IF seq = <<>> THEN <<>> ELSE Chunks[Head(seq)] \o StreamOf(Tail(seq))

\* The first bytes handed to gopher_get_http_code().
StatusData ==
  { <<>>,
    ErrorLine(<<"/", "m">>),
    ErrorLine(<<"/", "x">>),
    <<"3", "'", "/", "m", "'", " ", "x">>,
    <<"3", " ", "'", "/", "m", "'">>,
    <<"3", " ", "/", "m", "'", " ", "x">>,
    <<"3", " ", "'", "/", "m", " ", "x", "y">>,
    <<"3">>,
    <<"1", "a", TAB, "/", "s", TAB, "h", TAB, "7", "0", CR, LF>> }

\* The number of calls named op made so far.
Count(op) == Cardinality({i \in 1..Len(ops) : ops[i] = op})

Before(session) == [type |-> session.type, head_done |-> session.head_done]

Call(op, data, r, calls, nomem) ==
  [op |-> op, data |-> data, ret |-> r.ret, out |-> r.out,
   before |-> Before(s), calls |-> calls, nomem |-> nomem]

EnvWith(fill, nomem) ==
  [fill |-> fill, nomem |-> nomem, null_prints |-> env.null_prints,
   inline_images |-> env.inline_images]

\* A fetch that has no part in the calls made.
NoFetch ==
  [curl_handle |-> FALSE, http_code |-> 0, had_headers |-> FALSE,
   abort |-> FALSE, stopped |-> FALSE, codes |-> <<>>, done |-> FALSE,
   answer |-> 0]

InitWith(p, chunk_ids) ==
  /\ path = p
  /\ env \in Envs
  /\ s = gopher_state_create(path)
  /\ out = <<>>
  /\ faulted = FALSE
  /\ fed = <<>>
  /\ ops = <<>>
  /\ last = [op |-> "none", data |-> <<>>, ret |-> 0, out |-> <<>>,
             before |-> Before(gopher_state_create(p)), calls |-> <<>>,
             nomem |-> FALSE]
  /\ ids = chunk_ids
  /\ f = NoFetch

Init == \E p \in Paths : InitWith(p, ShortIds)

\* The owner may make another call named op, of at most max.
MayCall(op, max) ==
  /\ ~faulted
  /\ Len(ops) < MaxCalls
  /\ Count(op) < max

\* The owner calls gopher_probe_mime().
ProbeDone(r) ==
  /\ out' = out \o r.out
  /\ last' = Call("probe", <<>>, r, <<>>, FALSE)

Probe ==
  /\ MayCall("probe", MaxProbe)
  /\ ProbeDone(gopher_probe_mime(s))
  /\ ops' = Append(ops, "probe")
  /\ UNCHANGED <<path, env, s, faulted, fed, ids, f>>

\* The owner calls gopher_get_http_code() on the first bytes, before it
\* hands any of them to gopher_fetch_data().
StatusDone(data, r) ==
  /\ s' = r.s
  /\ out' = out \o r.out
  /\ last' = Call("status", data, r, <<>>, FALSE)

Status ==
  /\ MayCall("status", MaxStatus)
  /\ Count("feed") = 0 /\ Count("end") = 0
  /\ \E data \in StatusData :
       StatusDone(data, gopher_get_http_code(s, path, data))
  /\ ops' = Append(ops, "status")
  /\ UNCHANGED <<path, env, faulted, fed, ids, f>>

\* The owner calls gopher_fetch_data() with a chunk of size > 0.  A write
\* past the end of the block at s->input may fault or go unnoticed.
FeedDone(id, r) ==
  /\ s' = r.s
  /\ out' = out \o r.out
  /\ \E crash \in (IF r.wild > 0 THEN BOOLEAN ELSE {FALSE}) :
       faulted' = (r.fault \/ crash)
  /\ fed' = Append(fed, id)
  /\ last' = Call("feed", <<>>, r, r.calls, r.nomem)

\* What the call meets: the bytes past the buffer if it reads there, and
\* an allocation that fails if it allocates.
FeedOver(id, r) ==
  \E fill \in (IF r.over > 0 THEN FillBytes ELSE {NUL}),
     nomem \in (IF r.alloc THEN BOOLEAN ELSE {FALSE}) :
    FeedDone(id, IF fill = NUL /\ ~nomem THEN r
                 ELSE gopher_fetch_data(s, path, Chunks[id],
                                        EnvWith(fill, nomem)))

FeedWithin(max) ==
  /\ MayCall("feed", max)
  /\ \E id \in ids :
       FeedOver(id, gopher_fetch_data(s, path, Chunks[id],
                                     EnvWith(NUL, FALSE)))
  /\ ops' = Append(ops, "feed")
  /\ UNCHANGED <<path, env, ids, f>>

Feed == FeedWithin(MaxFeed)

\* The owner calls gopher_fetch_data() with size 0 when the fetch is done.
EndDone(r) ==
  /\ s' = r.s
  /\ out' = out \o r.out
  /\ last' = Call("end", <<>>, r, <<>>, FALSE)

End ==
  /\ MayCall("end", MaxEnd)
  /\ EndDone(gopher_fetch_data(s, path, <<>>, EnvWith(NUL, FALSE)))
  /\ ops' = Append(ops, "end")
  /\ UNCHANGED <<path, env, faulted, fed, ids, f>>

Next == Probe \/ Status \/ Feed \/ End

Spec == Init /\ [][Next]_vars

\* The same session on a menu whose server may also send the long line.
InitLong == InitWith(<<"/", "1", "/", "m">>, AllIds)

SpecLong == InitLong /\ [][Next]_vars

(***************************************************************************)
(* What the properties read off the history.                               *)
(***************************************************************************)
IsData(c) == c.type = "FETCH_DATA"

\* The FETCH_DATA callbacks among cbs, their payloads, their generators.
DataOf(cbs)   == SelectSeq(cbs, IsData)
Payloads(cbs) == [i \in 1..Len(DataOf(cbs)) |-> DataOf(cbs)[i].buf]
Gens(cbs)     == [i \in 1..Len(DataOf(cbs)) |-> DataOf(cbs)[i].gen]

\* Where in cbs the generator gen sent a callback.
At(cbs, gen) == {i \in 1..Len(cbs) : cbs[i].gen = gen}

IsRow(c) == c.gen = "row"
RowPayloads(cbs) ==
  [i \in 1..Len(SelectSeq(cbs, IsRow)) |-> SelectSeq(cbs, IsRow)[i].buf]

\* The calls were probe, status, any number of non-empty feeds, then end.
Driven ==
  /\ Len(ops) >= 3
  /\ ops[1] = "probe"
  /\ ops[2] = "status"
  /\ ops[Len(ops)] = "end"
  /\ \A i \in 3..(Len(ops) - 1) : ops[i] = "feed"

\* The calls were non-empty feeds, at least one, then one end, whatever
\* came before the first feed.
FedThenEnded ==
  /\ Count("end") = 1
  /\ Count("feed") >= 1
  /\ ops[Len(ops)] = "end"
  /\ \A i, j \in 1..Len(ops) : ops[i] = "feed" /\ i < j => ops[j] # "probe"

\* The rows of the lines of a stream, each rendered on its own, in order; a
\* line that cannot be rendered has none.
RECURSIVE LineRows(_, _)
LineRowsAfter(view, inline_images, r) ==
  IF r.adv = 0 THEN <<>>
  ELSE (IF r.ok THEN <<r.buf>> ELSE <<>>)
         \o LineRows(From(view, r.adv + 1), inline_images)

LineRows(view, inline_images) ==
  LineRowsAfter(view, inline_images,
                gopher_generate_row(view, BUFFER_LENGTH, inline_images))

\* a can be had from b by leaving elements out.
RECURSIVE IsSubSeq(_, _)
IsSubSeq(a, b) ==
  IF a = <<>> THEN TRUE
  ELSE IF b = <<>> THEN FALSE
  ELSE IF Head(a) = Head(b) THEN IsSubSeq(Tail(a), Tail(b))
  ELSE IsSubSeq(a, Tail(b))

\* A stream of complete lines, each a type byte and more ended by CR LF.
CompleteLines(b) ==
  /\ Len(b) >= 2
  /\ b[Len(b)] = LF
  /\ b[1] # CR
  /\ \A i \in 1..Len(b) : b[i] # NUL
  /\ \A i \in 1..Len(b) : b[i] = LF => i > 1 /\ b[i - 1] = CR
  /\ \A i \in 1..Len(b) : b[i] = CR => i < Len(b) /\ b[i + 1] = LF
  /\ \A i \in 1..(Len(b) - 2) : b[i] = LF => b[i + 1] # CR

LineCount(b) == Cardinality({i \in 1..Len(b) : b[i] = LF})

(***************************************************************************)
(* C1.  Feeding the chunks of a stream in order to a fresh session sends   *)
(* the same FETCH_DATA payloads as feeding the whole stream to a fresh     *)
(* session in a single call.  Stated while no end of data has been         *)
(* signalled, so that every FETCH_DATA so far comes from the feeds.        *)
(***************************************************************************)
C1_ChunkIndependence ==
  (fed # <<>> /\ Count("end") = 0 /\ ~faulted)
    => Payloads(out)
         = Payloads(gopher_fetch_data(gopher_state_create(path), path,
                                      StreamOf(fed), EnvWith(NUL, FALSE)).out)

(***************************************************************************)
(* C2.  For a session driven as probe, status, feeds, end: no HEADER       *)
(* callback follows a DATA callback, top then title precede every row,     *)
(* the rows are rows of the stream's lines in the order of the lines, and  *)
(* the epilogue is the last DATA callback.                                 *)
(***************************************************************************)
C2_StreamOrder ==
  Driven =>
    /\ \A i, j \in 1..Len(out) :
         i < j /\ IsData(out[i]) => IsData(out[j])
    /\ \A k \in At(out, "row") :
         \E i, j \in 1..k : i < j /\ out[i].gen = "top" /\ out[j].gen = "title"
    /\ IsSubSeq(RowPayloads(out), LineRows(StreamOf(fed), env.inline_images))
    /\ DataOf(out) # <<>>
    /\ DataOf(out)[Len(DataOf(out))].gen = "bottom"

(***************************************************************************)
(* C3.  A feed of length 0 sends the epilogue if and only if the declared  *)
(* type requires transcoding and the prologue has been sent.               *)
(***************************************************************************)
C3_EpilogueIff ==
  last.op = "end" =>
    (At(last.out, "bottom") # {}
       <=> (gopher_need_generate(last.before.type) /\ last.before.head_done))

(***************************************************************************)
(* C4.  Over any sequence of calls the epilogue is sent at most once,      *)
(* however often the end of the data is signalled.                         *)
(***************************************************************************)
C4_EpilogueOnce == Cardinality(At(out, "bottom")) <= 1

(***************************************************************************)
(* C5.  The prologue is sent at most once: head_done is true exactly from  *)
(* the first non-empty feed on, is never reset, and a call made while it   *)
(* is true sends neither top nor title.                                    *)
(***************************************************************************)
C5_PrologueOnce ==
  /\ Cardinality(At(out, "top")) <= 1
  /\ Cardinality(At(out, "title")) <= 1
  /\ s.head_done <=> Count("feed") > 0
  /\ last.before.head_done =>
       /\ s.head_done
       /\ At(last.out, "top") = {}
       /\ At(last.out, "title") = {}

C5_Witness ==
  /\ Count("feed") = 2
  /\ last.op = "feed"
  /\ last.before.head_done
  /\ Cardinality(At(out, "top")) = 1
  /\ Cardinality(At(out, "title")) = 1
  /\ At(last.out, "row") # {}

(***************************************************************************)
(* C6.  Every successful parse of a line sends exactly one FETCH_DATA      *)
(* fragment: a transcoding session fed n complete lines and then the end   *)
(* of the data has sent top, title, n rows and the epilogue, in order.     *)
(***************************************************************************)
C6_OneFragmentPerLine ==
  /\ last.op = "feed" =>
       Cardinality(At(last.out, "row"))
         = Cardinality({i \in 1..Len(last.calls) : last.calls[i].ok})
  /\ (FedThenEnded /\ gopher_need_generate(s.type)
         /\ CompleteLines(StreamOf(fed)))
       => Gens(out) = <<"top", "title">>
                        \o [i \in 1..LineCount(StreamOf(fed)) |-> "row"]
                        \o <<"bottom">>

(***************************************************************************)
(* C7.  Each call of gopher_generate_row() either returns true, having     *)
(* advanced the pointer past a line and reduced the remaining length by    *)
(* as much, or returns false, leaving pointer and length as they were.     *)
(***************************************************************************)
C7_ParserContract ==
  last.op = "feed" =>
    \A i \in 1..Len(last.calls) :
      IF last.calls[i].ok
      THEN /\ last.calls[i].adv > 0
           /\ last.calls[i].size = last.calls[i].len - last.calls[i].adv
      ELSE /\ last.calls[i].adv = 0
           /\ last.calls[i].size = last.calls[i].len

(***************************************************************************)
(* C8.  For a declared type other than NONE, when the first bytes are the  *)
(* error line quoting the URL path without its type prefix, the status is  *)
(* 404 and the declared type is '1' afterwards.                            *)
(***************************************************************************)
IsErrorOfPath ==
  /\ last.op = "status"
  /\ last.before.type # GOPHER_TYPE_NONE
  /\ last.data = ErrorLine(From(path, 3))

C8_ErrorHeuristic ==
  IsErrorOfPath => last.ret = 404 /\ s.type = GOPHER_TYPE_DIRECTORY

\* C8 as the code has it: the status is 404, and the declared type is '1'
\* afterwards unless it was '7', which it remains; either way it is a type
\* that is transcoded.
C8_ErrorHeuristicAmended ==
  IsErrorOfPath =>
    /\ last.ret = 404
    /\ s.type = IF last.before.type = GOPHER_TYPE_QUERY
                THEN GOPHER_TYPE_QUERY ELSE GOPHER_TYPE_DIRECTORY
    /\ gopher_need_generate(s.type)

C8_Witness ==
  /\ IsErrorOfPath
  /\ last.before.type = GOPHER_TYPE_TEXTPLAIN
  /\ s.type = GOPHER_TYPE_DIRECTORY
  /\ last.ret = 404

(***************************************************************************)
(* C9.  For a declared type other than NONE and a size above 0, when the   *)
(* first bytes are not the error line of the URL path (the first byte is   *)
(* not '3', the quoted path differs, a quote is missing or the data is too *)
(* short), the status is 200 and the declared type is unchanged.           *)
(***************************************************************************)
IsStatusOfData ==
  /\ last.op = "status"
  /\ last.before.type # GOPHER_TYPE_NONE
  /\ Len(last.data) > 0

\* The pattern of the error line: 3, a space, the path in quotes.
MatchesPattern(data, p) ==
  HasPrefix(data, <<"3", " ", "'">> \o From(p, 3) \o <<"'">>)

C9_FallbackTo200 ==
  (IsStatusOfData /\ ~MatchesPattern(last.data, path))
    => last.ret = 200 /\ s.type = last.before.type

\* The pattern the careful check accepts: 3, an optional space, the path in
\* quotes, and after the opening quote at least as many bytes as the URL
\* path has with its type prefix.
MatchesLoosely(data, p) ==
  \E lead \in {<<"3", "'">>, <<"3", " ", "'">>} :
    /\ HasPrefix(data, lead \o From(p, 3) \o <<"'">>)
    /\ Len(data) >= Len(lead) + Len(p)

\* C9 as the code has it: the status is 200, the declared type unchanged
\* and nothing sent when the first byte is not '3', or when the declared
\* type is not transcoded and the bytes do not match loosely; for a
\* transcoded type every first byte '3' gives 404.
C9_FallbackAmended ==
  /\ (IsStatusOfData
        /\ \/ last.data[1] # GOPHER_TYPE_ERROR
           \/ /\ ~gopher_need_generate(last.before.type)
              /\ ~MatchesLoosely(last.data, path))
       => last.ret = 200 /\ s.type = last.before.type /\ last.out = <<>>
  /\ (IsStatusOfData
        /\ last.data[1] = GOPHER_TYPE_ERROR
        /\ gopher_need_generate(last.before.type))
       => last.ret = 404 /\ s.type = last.before.type

C9_Witness ==
  /\ IsStatusOfData
  /\ last.before.type = GOPHER_TYPE_TEXTPLAIN
  /\ last.data = ErrorLine(<<"/", "x">>)
  /\ last.ret = 200
  /\ s.type = GOPHER_TYPE_TEXTPLAIN

(***************************************************************************)
(* C10.  On a session whose declared type is NONE the status is 400        *)
(* whatever the data and the size; on any other session the status for     *)
(* size 0 is 0, and the call changes nothing in the session and sends      *)
(* nothing.                                                                *)
(***************************************************************************)
C10_StatusEarly ==
  [][ops' = Append(ops, "status") =>
       /\ s.type = GOPHER_TYPE_NONE => last'.ret = 400
       /\ (s.type # GOPHER_TYPE_NONE /\ last'.data = <<>>) =>
            last'.ret = 0 /\ s' = s /\ out' = out]_vars

C10_Witness ==
  /\ last.op = "status"
  /\ last.before.type = GOPHER_TYPE_NONE
  /\ last.data = <<>>
  /\ last.ret = 400

(***************************************************************************)
(* The registry, type by type                                              *)
(***************************************************************************)
MaxAsk == 1

InitTypes == \E tag \in Tags : InitWith(PathOf(tag), {})

\* The fetcher asks gopher_type_to_mime() for the MIME type of the session.
TypeToMime ==
  /\ MayCall("type_to_mime", MaxAsk)
  /\ last' = Call("type_to_mime", <<>>,
                  [ret |-> gopher_type_to_mime(s.type), out |-> <<>>],
                  <<>>, FALSE)
  /\ ops' = Append(ops, "type_to_mime")
  /\ UNCHANGED <<path, env, s, out, faulted, fed, ids, f>>

\* The fetcher asks gopher_need_generate() whether the session transcodes.
NeedGenerate ==
  /\ MayCall("need_generate", MaxAsk)
  /\ last' = Call("need_generate", <<>>,
                  [ret |-> gopher_need_generate(s.type), out |-> <<>>],
                  <<>>, FALSE)
  /\ ops' = Append(ops, "need_generate")
  /\ UNCHANGED <<path, env, s, out, faulted, fed, ids, f>>

NextTypes == TypeToMime \/ NeedGenerate \/ Probe \/ End

SpecTypes == InitTypes /\ [][NextTypes]_vars

\* C19: gopher_need_generate() answers true for the types '1' (directory)
\* and '7' (query) and false for every other type, GOPHER_TYPE_NONE
\* included.
C19_NeedsTranscode ==
  last.op = "need_generate" =>
    (last.ret <=> last.before.type \in {"1", "7"})

C19_Witness ==
  /\ last.op = "need_generate"
  /\ last.before.type = "7"
  /\ last.ret = TRUE

\* C20: gopher_type_to_mime() answers text/plain for '0', text/html with
\* the UTF-8 charset for '1' and '7', image/gif for 'g', text/html for 'h',
\* application/pdf for 'd' and 'P', image/png for 'p', and no MIME type for
\* every other type, GOPHER_TYPE_NONE included.
C20_MimeTable ==
  last.op = "type_to_mime" =>
    last.ret = CASE last.before.type = "0" -> "text/plain"
                 [] last.before.type = "1" -> "text/html;charset=UTF-8"
                 [] last.before.type = "7" -> "text/html;charset=UTF-8"
                 [] last.before.type = "g" -> "image/gif"
                 [] last.before.type = "h" -> "text/html"
                 [] last.before.type = "d" -> "application/pdf"
                 [] last.before.type = "P" -> "application/pdf"
                 [] last.before.type = "p" -> "image/png"
                 [] OTHER -> NoMime

C20_Witness ==
  /\ last.op = "type_to_mime"
  /\ last.before.type = "p"
  /\ last.ret = "image/png"

\* C14: gopher_probe_mime() sends one FETCH_HEADER "Content-type: MIME"
\* and returns true when the session's type has a MIME type, sends nothing
\* and returns false when it has none, and leaves the session as it was.
C14_Probe ==
  [][ops' = Append(ops, "probe") =>
       /\ s' = s
       /\ IF gopher_type_to_mime(s.type) # NoMime
          THEN /\ last'.ret = TRUE
               /\ out' = Append(out,
                    [type |-> "FETCH_HEADER", gen |-> "mime",
                     buf |-> "Content-type: "
                               \o gopher_type_to_mime(s.type) \o "\r\n"])
          ELSE /\ last'.ret = FALSE
               /\ out' = out]_vars

C14_Witness ==
  /\ last.op = "probe"
  /\ last.before.type = "g"
  /\ last.ret = TRUE
  /\ last.out = <<[type |-> "FETCH_HEADER", gen |-> "mime",
                   buf |-> "Content-type: image/gif\r\n"]>>

\* C16: gopher_fetch_data() returns the size it was given when the size is
\* not 0, whether or not the bytes end a line, and 0 when the size is 0.
C16_FeedReturnsLen ==
  /\ (last.op = "feed" /\ ~faulted) =>
       last.ret = Len(Chunks[fed[Len(fed)]])
  /\ last.op = "end" => last.ret = 0

C16_Witness ==
  /\ last.op = "feed"
  /\ ~faulted
  /\ s.cached > 0
  /\ last.ret = Len(Chunks[fed[Len(fed)]])

\* C15: a gopher_fetch_data() call whose allocation fails sends no callback
\* and leaves a session that later calls find degraded.
C15_AllocFailure ==
  (last.op = "feed" /\ last.nomem) => (last.out = <<>> /\ ~faulted)

(***************************************************************************)
(* One line of a menu, line by line                                        *)
(***************************************************************************)
InitRows == \E id \in RowIds : InitWith(<<"/", "1", "/", "m">>, {id})

NextRows == Feed \/ End

SpecRows == InitRows /\ [][NextRows]_vars

\* The line of the last call, and the row of a line on its own.
LastCase == RowCaseOf(fed[Len(fed)])
RowOf(c) == gopher_generate_row(LineOf(c), BUFFER_LENGTH, env.inline_images)

FedARow == last.op = "feed" /\ fed # <<>> /\ fed[Len(fed)] \in RowIds

\* How many times a row of the type shows the name, and the URL of the item.
NameCount(type) ==
  CASE type = "." -> 0
    [] type \in {"g", "I", "p", ":"} /\ env.inline_images -> 2
    [] OTHER -> 1

UrlCount(type) ==
  CASE type \in {".", "3", "i"} -> 0
    [] type \in {"g", "I", "p", ":"} /\ env.inline_images -> 2
    [] type \in {"s", ";"} -> 2
    [] OTHER -> 1

\* C17: in the row of every line, of every type, the name appears with each
\* '<', '>' and '&' written "&lt;", "&gt;" and "&amp;": the row is as long as
\* the row of the same line without a name plus the HTML text of the name
\* each time the row shows it, and the rows of an error, an information
\* line and a directory are exactly the markup around that text.
C17_EscapeSoundness ==
  FedARow =>
    /\ Len(RowPayloads(last.out)) = 1
    /\ Len(RowPayloads(last.out)[1])
         = Len(RowOf([LastCase EXCEPT !.name = NameCases[4]]).buf)
             + NameCount(LastCase.type) * Len(LastCase.name.nice)
    /\ LastCase.type = "3" =>
         RowPayloads(last.out)[1]
           = "<span class=\"error\">" \o LastCase.name.nice
               \o "</span><br/>\n"
    /\ LastCase.type = "i" =>
         RowPayloads(last.out)[1]
           = "<span class=\"info\">" \o LastCase.name.nice
               \o "</span><br/>\n"
    /\ (LastCase.type = "1" /\ LastCase.port.text = "70") =>
         RowPayloads(last.out)[1]
           = "<a href=\"gopher://h/1s\"><span class=\"dir\">"
               \o LastCase.name.nice \o "</span></a><br/>\n"

C17_Witness ==
  /\ FedARow
  /\ LastCase.type = "I"
  /\ LastCase.name.name = <<"a", "&", "b", ">">>
  /\ env.inline_images
  /\ RowPayloads(last.out)
       = << "<a href=\"gopher://h/Is\"><span class=\"img\">a&amp;b&gt;"
              \o "<img src=\"gopher://h/Is\" alt=\"a&amp;b&gt;\"/>"
              \o "</span></a><br/>\n" >>

\* The default port of the links of a type, and the text of the port of a
\* line in a URL.
DefaultPort(type) ==
  CASE type \in {"8", "T"} -> "23"
    [] type = "2" -> "105"
    [] OTHER -> "70"

PortPart(c) ==
  IF c.port.given /\ c.port.text # "" /\ c.port.text # DefaultPort(c.type)
  THEN ":" \o c.port.text ELSE ""

\* C18: the URL of a row has ":PORT" exactly when the line gives a port
\* that is not empty and is not the default of the scheme ("70" for gopher,
\* "23" for telnet and tn3270, "105" for CSO): the row is as long as the row
\* of the same line without a port plus that text in each URL, and the rows
\* of a directory, a telnet, a tn3270 and a CSO line are exactly the markup
\* with that text after the host.
C18_PortOmission ==
  FedARow =>
    /\ Len(RowPayloads(last.out)) = 1
    /\ Len(RowPayloads(last.out)[1])
         = Len(RowOf([LastCase EXCEPT !.port = PortCases[1]]).buf)
             + UrlCount(LastCase.type) * Len(PortPart(LastCase))
    /\ LastCase.type = "1" =>
         RowPayloads(last.out)[1]
           = "<a href=\"gopher://h" \o PortPart(LastCase) \o "/1s\">"
               \o "<span class=\"dir\">" \o LastCase.name.nice
               \o "</span></a><br/>\n"
    /\ LastCase.type = "8" =>
         RowPayloads(last.out)[1]
           = "<a href=\"telnet://h" \o PortPart(LastCase) \o "\">"
               \o "<span class=\"telnet\">" \o LastCase.name.nice
               \o "</span></a><br/>\n"
    /\ LastCase.type = "T" =>
         RowPayloads(last.out)[1]
           = "<a href=\"tn3270://h" \o PortPart(LastCase) \o "\">"
               \o "<span class=\"telnet\">" \o LastCase.name.nice
               \o "</span></a><br/>\n"
    /\ LastCase.type = "2" =>
         RowPayloads(last.out)[1]
           = "<a href=\"cso://h" \o PortPart(LastCase) \o "\">"
               \o "<span class=\"cso\">" \o LastCase.name.nice
               \o "</span></a><br/>\n"

C18_Witness ==
  /\ FedARow
  /\ LastCase.type = "1"
  /\ LastCase.port.text = "71"
  /\ RowPayloads(last.out)
       = << "<a href=\"gopher://h:71/1s\"><span class=\"dir\">a</span></a>"
              \o "<br/>\n" >>

(***************************************************************************)
(* The curl fetcher (content/fetchers/curl.c) on a gopher URL.  f holds    *)
(* the fields of struct curl_fetch_info that the gopher path reads:        *)
(* curl_handle (whether the fetch has one), http_code, had_headers, abort, *)
(* stopped; codes is the history of fetch_set_http_code(), done tells      *)
(* that fetch_curl_done() or fetch_curl_abort() has freed the fetch, and   *)
(* answer is what curl_easy_getinfo(CURLINFO_HTTP_CODE) gives for the      *)
(* transfer: the status of the HTTP proxy when the options name one, 0     *)
(* otherwise.                                                              *)
(***************************************************************************)
\* curl_easy_getinfo(CURLINFO_HTTP_CODE) of a gopher transfer: no HTTP
\* response was received.
CURLINFO_HTTP_CODE == 0

\* What fetch_filetype() may answer for the URL: nothing, or a type.
FileTypes == {NoMime, "text/html"}

\* The results with which a transfer may end: CURLE_WRITE_ERROR when a
\* callback has returned 0, else success or a failure to receive, and once
\* the headers of an HTTP response were received (headers of them) a body
\* shorter than announced.
Results(fr, headers) ==
  IF fr.stopped THEN {"CURLE_WRITE_ERROR"}
  ELSE {"CURLE_OK", "CURLE_RECV_ERROR"}
         \cup (IF headers > 0 THEN {"CURLE_PARTIAL_FILE"} ELSE {})

Message(type) == [type |-> type, buf |-> "", gen |-> "curl"]

\* fetch_curl_setup(): the fetch as constructed.
fetch_curl_setup ==
  [curl_handle |-> FALSE, http_code |-> 0, had_headers |-> FALSE,
   abort |-> FALSE, stopped |-> FALSE, codes |-> <<>>, done |-> FALSE,
   answer |-> CURLINFO_HTTP_CODE]

\* f->http_code = code; fetch_set_http_code(f->fetch_handle, code)
SetCode(fr, code) ==
  [fr EXCEPT !.http_code = code, !.codes = Append(@, code)]

\* The Content-type header of fetch_curl_setup_gopher(), if mime is one.
SetupHeader(mime) ==
  IF mime # NoMime
  THEN <<Header("Content-type: " \o mime \o "\r\n", "setup")>>
  ELSE <<>>

\* fetch_curl_setup_gopher(): the fetch, its session and the callbacks
\* sent; filetype is the answer of fetch_filetype().
fetch_curl_setup_gopher(p, filetype) ==
  [f   |-> IF gopher_state_create(p).type = GOPHER_TYPE_NONE
           THEN SetCode(fetch_curl_setup, 404) ELSE fetch_curl_setup,
   s   |-> gopher_state_create(p),
   out |-> SetupHeader(
             IF gopher_type_to_mime(gopher_state_create(p).type) = NoMime
             THEN filetype
             ELSE gopher_type_to_mime(gopher_state_create(p).type))]

\* fetch_curl_process_headers(): the fetch afterwards, the callbacks sent
\* and the value returned.  A gopher fetch has no Location header, and its
\* URL does not start with "http".
fetch_curl_process_headers(fr) ==
  LET g == IF fr.http_code = 0
           THEN SetCode([fr EXCEPT !.had_headers = TRUE], fr.answer)
           ELSE [fr EXCEPT !.had_headers = TRUE]
  IN  IF g.http_code = 304
      THEN [f |-> g, out |-> <<Message("FETCH_NOTMODIFIED")>>, ret |-> TRUE]
      ELSE IF g.http_code = 401
      THEN [f |-> g, out |-> <<Message("FETCH_AUTH")>>, ret |-> TRUE]
      ELSE [f |-> g, out |-> <<>>, ret |-> g.abort]

\* A faulty variant of FirstCode: the status is guessed from every chunk.
FirstCodeAgain(fr, transcode, first) ==
  IF transcode
  THEN SetCode(fr, IF first = GOPHER_TYPE_ERROR THEN 404 ELSE 200)
  ELSE fr

\* A faulty variant of FirstCode: the first byte is not looked at.
FirstCodeFound(fr, transcode, first) ==
  IF transcode /\ fr.http_code = 0 THEN SetCode(fr, 200) ELSE fr

\* The start of fetch_curl_data(): the status of a menu is guessed from the
\* first byte received, any other status is asked of curl.
FirstCode(fr, transcode, first) ==
  IF transcode /\ fr.http_code = 0
  THEN SetCode(fr, IF first = GOPHER_TYPE_ERROR THEN 404 ELSE 200)
  ELSE fr

AskedCode(fr) ==
  IF fr.http_code = 0 THEN SetCode(fr, fr.answer) ELSE fr

MaxData == 2

CurlPaths == Paths \cup { <<"/", "g", "/", "m">> }
CurlIds   == {1, 3, 4} \cup ErrorIds

InitCurl ==
  \E p \in CurlPaths, filetype \in FileTypes :
    /\ path = p
    /\ env \in Envs
    /\ s = fetch_curl_setup_gopher(p, filetype).s
    /\ f = fetch_curl_setup_gopher(p, filetype).f
    /\ out = fetch_curl_setup_gopher(p, filetype).out
    /\ faulted = FALSE
    /\ fed = <<>>
    /\ ops = <<>>
    /\ last = [op |-> "none", data |-> <<>>, ret |-> 0, out |-> <<>>,
               before |-> Before(gopher_state_create(p)), calls |-> <<>>,
               nomem |-> FALSE]
    /\ ids = CurlIds

\* The fetch is given a curl handle and started.
Start ==
  /\ ~f.curl_handle /\ ~f.done
  /\ f' = [f EXCEPT !.curl_handle = TRUE]
  /\ ops' = Append(ops, "start")
  /\ UNCHANGED <<path, env, s, out, faulted, fed, last, ids>>

\* fetch_curl_abort()
Abort ==
  /\ ~f.done /\ ~f.abort /\ ~faulted
  /\ f' = IF f.curl_handle THEN [f EXCEPT !.abort = TRUE]
          ELSE [f EXCEPT !.done = TRUE]
  /\ ops' = Append(ops, "abort")
  /\ UNCHANGED <<path, env, s, out, faulted, fed, last, ids>>

\* fetch_curl_data() stops: f->stopped = true; return 0
DataStopped(fr, cbs) ==
  /\ f' = [fr EXCEPT !.stopped = TRUE]
  /\ out' = out \o cbs
  /\ last' = Call("data", <<>>, [ret |-> 0, out |-> cbs], <<>>, FALSE)
  /\ UNCHANGED <<s, faulted, fed>>

\* fetch_curl_data() sends the data as it is; the callback may abort the
\* fetch.
DataRaw(id, fr) ==
  /\ out' = Append(out, Data(Chunks[id], "raw"))
  /\ fed' = Append(fed, id)
  /\ \E aborts \in BOOLEAN :
       /\ f' = IF aborts THEN [fr EXCEPT !.abort = TRUE, !.stopped = TRUE]
               ELSE fr
       /\ last' = Call("data", <<>>,
                       [ret |-> IF aborts THEN 0 ELSE Len(Chunks[id]),
                        out |-> <<Data(Chunks[id], "raw")>>],
                       <<>>, FALSE)
  /\ UNCHANGED <<s, faulted>>

\* fetch_curl_data() past the headers.
DataBody(id, fr, transcode) ==
  IF transcode
  THEN /\ FeedOver(id, gopher_fetch_data(s, path, Chunks[id],
                                         EnvWith(NUL, FALSE)))
       /\ f' = fr
  ELSE DataRaw(id, fr)

\* fetch_curl_data() from the test of f->abort and of the headers on; ph is
\* what fetch_curl_process_headers() would do.
DataHeaders(id, fr, ph, transcode) ==
  IF fr.abort THEN DataStopped(fr, <<>>)
  ELSE IF ~fr.had_headers /\ ph.ret THEN DataStopped(ph.f, ph.out)
  ELSE DataBody(id, IF fr.had_headers THEN fr ELSE ph.f, transcode)

\* fetch_curl_data() once the status is known.
DataCoded(id, fr, transcode) ==
  IF fr.http_code = 401
  THEN /\ f' = [fr EXCEPT !.http_code = 0]
       /\ last' = Call("data", <<>>,
                       [ret |-> Len(Chunks[id]), out |-> <<>>], <<>>, FALSE)
       /\ UNCHANGED <<s, out, faulted, fed>>
  ELSE DataHeaders(id, fr, fetch_curl_process_headers(fr), transcode)

\* curl hands a chunk of the response to fetch_curl_data().
Receive ==
  /\ MayCall("data", MaxData)
  /\ f.curl_handle /\ ~f.done /\ ~f.stopped
  /\ \E id \in ids :
       DataCoded(id,
                 AskedCode(FirstCode(f, gopher_need_generate(s.type),
                                     Chunks[id][1])),
                 gopher_need_generate(s.type))
  /\ ops' = Append(ops, "data")
  /\ UNCHANGED <<path, env, ids>>

\* A faulty variant of DoneWith: the callback that tells how the fetch
\* ended is sent before the others.
DoneWithFirst(fr, result, cbs, finished, error) ==
  /\ f' = [fr EXCEPT !.done = TRUE]
  /\ out' = out
           \o (IF fr.abort THEN <<>>
               ELSE IF finished THEN <<Message("FETCH_FINISHED")>>
               ELSE IF error THEN <<Message("FETCH_ERROR")>>
               ELSE <<>>)
           \o cbs
  /\ last' = Call("done", <<result>>, [ret |-> 0, out |-> cbs], <<>>, FALSE)

\* The end of fetch_curl_done(): the callback that tells how the fetch
\* ended, and the fetch freed.  The record of the call keeps the result it
\* was given.
DoneWith(fr, result, cbs, finished, error) ==
  /\ f' = [fr EXCEPT !.done = TRUE]
  /\ out' = out \o cbs
           \o (IF fr.abort THEN <<>>
               ELSE IF finished THEN <<Message("FETCH_FINISHED")>>
               ELSE IF error THEN <<Message("FETCH_ERROR")>>
               ELSE <<>>)
  /\ last' = Call("done", <<result>>, [ret |-> 0, out |-> cbs], <<>>, FALSE)

\* fetch_curl_done() of a transfer that completed: the session is told the
\* end of the data, then the headers are processed if they were not.
DoneNormal(fr, result, end, ph) ==
  IF fr.stopped THEN DoneWith(fr, result, end.out, FALSE, FALSE)
  ELSE IF ~fr.had_headers
  THEN DoneWith(ph.f, result, end.out \o ph.out, ~ph.ret, FALSE)
  ELSE DoneWith(fr, result, end.out, TRUE, FALSE)

\* fetch_curl_done() of a transfer that ended short of its Content-Length:
\* the headers are processed if they were not.
DonePartial(fr, result, ph) ==
  IF ~fr.had_headers THEN DoneWith(ph.f, result, ph.out, ~ph.ret, FALSE)
  ELSE DoneWith(fr, result, <<>>, TRUE, FALSE)

\* fetch_curl_done(curl_handle, result)
Done ==
  /\ f.curl_handle /\ ~f.done /\ ~faulted
  /\ \E result \in Results(f, Count("header")) :
       IF ~f.abort /\ (result = "CURLE_OK"
                         \/ (result = "CURLE_WRITE_ERROR" /\ ~f.stopped))
       THEN DoneNormal(f, result, gopher_fetch_data(s, path, <<>>,
                                            EnvWith(NUL, FALSE)),
                       fetch_curl_process_headers(f))
       ELSE IF result = "CURLE_PARTIAL_FILE"
       THEN DonePartial(f, result, fetch_curl_process_headers(f))
       ELSE IF result = "CURLE_WRITE_ERROR" /\ f.stopped
       THEN DoneWith(f, result, <<>>, FALSE, FALSE)
       ELSE DoneWith(f, result, <<>>, FALSE, TRUE)
  /\ ops' = Append(ops, "done")
  /\ UNCHANGED <<path, env, s, faulted, fed, ids>>

NextCurl == Start \/ Abort \/ Receive \/ Done

SpecCurl == InitCurl /\ [][NextCurl]_vars

\* The chunks that fetch_curl_data() was given before any abort of the
\* fetch.
InTime ==
  Cardinality({i \in 1..Len(ops) :
                 /\ ops[i] = "data"
                 /\ \A j \in 1..(i - 1) : ops[j] # "abort"})

\* b starts with the bytes of prefix.
StartsWith(b, prefix) ==
  Len(b) >= Len(prefix) /\ SubSeq(b, 1, Len(prefix)) = prefix

\* C11: a fetch whose URL gives no item type has the status 400 set as
\* soon as it is set up, and no prologue, row or epilogue is ever sent for
\* it.
C11_NoneIs400 ==
  s.type = GOPHER_TYPE_NONE =>
    /\ f.codes # <<>>
    /\ f.codes[1] = 400
    /\ \A i \in 1..Len(out) : out[i].gen \notin {"top", "title", "row", "bottom"}

\* C12: when the first byte that a menu fetch receives is '3', the status
\* set is 404, every chunk received before an abort is handed to
\* gopher_fetch_data(), the prologue is sent, and once the error line is
\* complete its row is a <span class="error">.
C12_ServerError ==
  (gopher_need_generate(s.type) /\ fed # <<>> /\ Chunks[fed[1]][1] = "3") =>
    /\ f.codes = <<404>>
    /\ f.http_code = 404
    /\ Len(fed) = InTime
    /\ At(out, "top") # {}
    /\ At(out, "title") # {}
    /\ (StartsWith(StreamOf(fed), ErrorLine(<<"/", "m">>)) /\ ~faulted) =>
         /\ RowPayloads(out) # <<>>
         /\ RowPayloads(out)[1]
              = "<span class=\"error\"> '/m' does not exist</span><br/>\n"

C12_Witness ==
  /\ s.type = "1"
  /\ Len(fed) = 2
  /\ Chunks[fed[1]] = SubSeq(ErrorLine(<<"/", "m">>), 1, 4)
  /\ f.codes = <<404>>
  /\ f.done
  /\ RowPayloads(out)
       = << "<span class=\"error\"> '/m' does not exist</span><br/>\n" >>
  /\ At(out, "bottom") # {}

TermIds ==
  {id \in LineIds :
     id - Min(LineIds) + 1 \in (Len(CountCases) + 1)
                                ..(Len(CountCases) + Len(TermCases))}

InitLines ==
  \E id \in LineIds :
    InitWith(<<"/", "1", "/", "m">>,
             IF id \in TermIds THEN {id} \cup TailIds ELSE {id})

NextLines == Feed \/ End

SpecLines == InitLines /\ [][NextLines]_vars

\* The first call of a session was given a line of LineCases, and it is
\* the last call made; that line; the second call was given a chunk after
\* such a line.
FirstLine == last.op = "feed" /\ Len(fed) = 1 /\ fed[1] \in LineIds
SecondChunk == last.op = "feed" /\ Len(fed) = 2 /\ fed[1] \in LineIds
TheCase == LineCaseOf(fed[1])

\* A line with nothing before its type byte, ended by CR LF.
Plain(c) == c.lead = <<>> /\ c.term = <<CR, LF>>

\* The row of a directory line with name a, selector s, host h and the
\* default port.
DirRow == "<a href=\"gopher://h/1s\"><span class=\"dir\">a</span></a><br/>\n"

\* C27: the line ".", CR, LF is accepted: gopher_generate_row() returns
\* true, the three bytes are consumed, and the row sent is empty.
C27_Sentinel ==
  (FirstLine /\ BytesOf(TheCase) = <<".", CR, LF>>) =>
    /\ ~faulted
    /\ last.calls[1] = [ok |-> TRUE, adv |-> 3, size |-> 0, len |-> 3]
    /\ RowPayloads(last.out) = <<"">>
    /\ s.cached = 0

C27_Witness ==
  /\ FirstLine
  /\ BytesOf(TheCase) = <<".", CR, LF>>
  /\ last.calls[1].ok
  /\ RowPayloads(last.out) = <<"">>

\* C26: whatever the number of TABs of a line, the parser sets at most
\* FIELD_COUNT fields; the first four TABs delimit name, selector, host and
\* port, later TABs stay in the last field, and the row is the row of the
\* line cut after its port.
C26_FieldIndex ==
  (FirstLine /\ Plain(TheCase) /\ Len(TheCase.pieces) >= 4) =>
    /\ Len(FieldsOf(BytesOf(TheCase), 1, Len(BytesOf(TheCase)) - 1))
         <= FIELD_COUNT
    /\ SubSeq(FieldsOf(BytesOf(TheCase), 1, Len(BytesOf(TheCase)) - 1), 1, 4)
         = SubSeq(TheCase.pieces, 1, 4)
    /\ Len(TheCase.pieces) > 4 =>
         FieldsOf(BytesOf(TheCase), 1, Len(BytesOf(TheCase)) - 1)[5]
           = Joined(SubSeq(TheCase.pieces, 5, Len(TheCase.pieces)))
    /\ ~faulted
    /\ last.calls[1].ok
    /\ last.calls[1].adv = Len(BytesOf(TheCase))
    /\ RowPayloads(last.out)
         = << gopher_generate_row(
                BytesOf([TheCase EXCEPT !.pieces = SubSeq(@, 1, 4)]),
                BUFFER_LENGTH, env.inline_images).buf >>
    /\ (TheCase.type = "1" /\ SubSeq(TheCase.pieces, 1, 4) = SubSeq(Pieces, 1, 4))
         => RowPayloads(last.out) = <<DirRow>>

C26_Witness ==
  /\ FirstLine
  /\ TheCase.type = "1"
  /\ TheCase.pieces = Pieces
  /\ Plain(TheCase)
  /\ RowPayloads(last.out) = <<DirRow>>

\* C25: a line whose terminator byte (a CR, or an LF without CR) is the
\* last byte of the view is not parsed: gopher_generate_row() returns false
\* with *data and *size as they were and no row is sent.  The next call
\* parses it, and consumes the terminator byte alone unless an LF follows
\* it.
C25_TerminatorLast ==
  /\ (FirstLine /\ TheCase.lead = <<>> /\ Len(TheCase.term) = 1) =>
       /\ last.calls = << [ok |-> FALSE, adv |-> 0,
                           size |-> Len(BytesOf(TheCase)),
                           len |-> Len(BytesOf(TheCase))] >>
       /\ RowPayloads(last.out) = <<>>
       /\ ~faulted => (s.cached = Len(BytesOf(TheCase))
                         /\ SubSeq(s.input, 1, s.cached) = BytesOf(TheCase))
  /\ (SecondChunk /\ TheCase.lead = <<>> /\ Len(TheCase.term) = 1
        /\ ~faulted) =>
       /\ last.calls[1].ok
       /\ last.calls[1].adv
            = Len(BytesOf(TheCase))
                + (IF Chunks[fed[2]][1] = LF THEN 1 ELSE 0)
       /\ RowPayloads(last.out)[1]
            = gopher_generate_row(
                BytesOf([TheCase EXCEPT !.term = <<CR, LF>>]),
                BUFFER_LENGTH, env.inline_images).buf
       /\ TheCase.type = "1" => RowPayloads(last.out)[1] = DirRow

C25_Witness ==
  /\ SecondChunk
  /\ TheCase.type = "1"
  /\ TheCase.lead = <<>>
  /\ TheCase.term = <<CR>>
  /\ Chunks[fed[2]][1] = "0"
  /\ ~faulted
  /\ last.calls[1].ok
  /\ last.calls[1].adv = Len(BytesOf(TheCase))
  /\ Len(RowPayloads(last.out)) = 2
  /\ RowPayloads(last.out)[1] = DirRow

\* A line of SelCases: name a, a selector, host h and port 70 or 71; the
\* text of its selector and of its port in a gopher URL.
Selected(c) == Plain(c) /\ Len(c.pieces) = 4 /\ c.pieces[1] = <<"a">>
                 /\ c.pieces[3] = <<"h">>
SelText(c)  == Str(c.pieces[2])
PortText(c) == IF c.pieces[4] = <<"7", "0">> THEN "" ELSE ":" \o Str(c.pieces[4])

\* C29: the row of an 'h' line whose selector starts with "URL:" or "/URL:"
\* links to what follows that prefix, without host or port; the row of any
\* other 'h' line links to gopher://HOST[:PORT]/hSELECTOR; both have the
\* class "html".
C29_HtmlLink ==
  (FirstLine /\ TheCase.type = "h" /\ Selected(TheCase)) =>
    /\ ~faulted
    /\ RowPayloads(last.out)
         = << "<a href=\""
                \o (CASE SelText(TheCase) = "URL:u" -> "u"
                      [] SelText(TheCase) = "/URL:u" -> "u"
                      [] OTHER -> "gopher://h" \o PortText(TheCase) \o "/h"
                                    \o SelText(TheCase))
                \o "\"><span class=\"html\">a</span></a><br/>\n" >>

C29_Witness ==
  /\ FirstLine
  /\ TheCase.type = "h"
  /\ Selected(TheCase)
  /\ SelText(TheCase) = "/URL:u"
  /\ RowPayloads(last.out)
       = << "<a href=\"u\"><span class=\"html\">a</span></a><br/>\n" >>

\* C28: the row of an 'i' line is a heading <h2> when its selector is
\* "TITLE" and a <span class="info"> in every other case, the case of a
\* line without selector included.
C28_InfoLine ==
  (FirstLine /\ TheCase.type = "i" /\ Plain(TheCase)) =>
    RowPayloads(last.out)
      = << IF Len(TheCase.pieces) >= 2 /\ SelText(TheCase) = "TITLE"
           THEN "<h2>" \o Str(TheCase.pieces[1]) \o "</h2><br/>\n"
           ELSE "<span class=\"info\">" \o Str(TheCase.pieces[1])
                  \o "</span><br/>\n" >>

\* C30: the row of a telnet or tn3270 line links to
\* SCHEME://[USER@]HOST[:PORT], USER being what follows the last '/' of the
\* selector, and "USER@" is there only when that is not empty.
C30_TelnetUser ==
  (FirstLine /\ TheCase.type \in {"8", "T"} /\ Selected(TheCase)) =>
    RowPayloads(last.out)
      = << "<a href=\""
             \o (IF TheCase.type = "8" THEN "telnet" ELSE "tn3270") \o "://"
             \o (CASE SelText(TheCase) = "/srv/user" -> "user@"
                   [] SelText(TheCase) = "/docs" -> "docs@"
                   [] SelText(TheCase) = "/URL:u" -> "URL:u@"
                   [] OTHER -> "")
             \o "h"
             \o (IF TheCase.pieces[4] = <<"2", "3">> THEN ""
                 ELSE ":" \o Str(TheCase.pieces[4]))
             \o "\"><span class=\"telnet\">a</span></a><br/>\n" >>

\* C23: a line with one to three fields is rendered: the parser returns
\* true, consumes the line, and one row is sent, without a fault.
C23_FewFields ==
  (FirstLine /\ Plain(TheCase) /\ Len(TheCase.pieces) <= 3
     /\ BytesOf(TheCase) # <<".", CR, LF>>) =>
    /\ ~faulted
    /\ last.calls # <<>>
    /\ last.calls[1].ok
    /\ last.calls[1].adv = Len(BytesOf(TheCase))
    /\ Len(RowPayloads(last.out)) = 1

\* C24: a CR, an LF or a NUL where a type byte is expected is skipped: the
\* line that follows it is parsed and rendered as if the byte were not
\* there, and the byte is consumed with it.
C24_InvalidType ==
  (FirstLine /\ TheCase.lead # <<>> /\ TheCase.term = <<CR, LF>>) =>
    /\ last.calls # <<>>
    /\ last.calls[1].ok
    /\ last.calls[1].adv = Len(BytesOf(TheCase))
    /\ RowPayloads(last.out)
         = << gopher_generate_row(BytesOf([TheCase EXCEPT !.lead = <<>>]),
                                  BUFFER_LENGTH, env.inline_images).buf >>

\* C21: every line ended by an LF without CR has its row sent by the time
\* the end of the data is signalled, the last line of the stream included.
C21_LineFeedOnly ==
  (last.op = "end" /\ Count("end") = 1 /\ ~faulted /\ fed # <<>>
     /\ \A i \in 1..Len(fed) :
          /\ fed[i] \in LineIds
          /\ LineCaseOf(fed[i]).lead = <<>>
          /\ LineCaseOf(fed[i]).term = <<LF>>) =>
    RowPayloads(out)
      = [i \in 1..Len(fed) |->
           gopher_generate_row(
             BytesOf([LineCaseOf(fed[i]) EXCEPT !.term = <<CR, LF>>]),
             BUFFER_LENGTH, env.inline_images).buf]

\* C22: after every call with size > 0 the first cached bytes of the input
\* buffer are the last cached bytes of the chunks received so far.
C22_CarryIsSuffix ==
  (last.op = "feed" /\ ~faulted) =>
    /\ s.cached <= Len(StreamOf(fed))
    /\ SubSeq(s.input, 1, s.cached)
         = From(StreamOf(fed), Len(StreamOf(fed)) - s.cached + 1)

(***************************************************************************)
(* The carry over several calls: a session on a menu receives up to        *)
(* MaxCarry chunks among a line cut in two (the chunks 3 and 4 of          *)
(* StreamChunks), the full line of TailChunks, and those of CarryChunks.   *)
(***************************************************************************)
MaxCarry == 3

InitCarry ==
  InitWith(<<"/", "1", "/", "m">>, {3, 4, Max(TailIds)} \cup CarryIds)

FeedCarry == FeedWithin(MaxCarry)

NextCarry == FeedCarry \/ End

SpecCarry == InitCarry /\ [][NextCarry]_vars

\* C31: the bytes kept in the block at s->input never outnumber the bytes
\* the block was allocated with.
C31_CarryFits == s.cached <= s.input_size

\* The view holds a NUL, and before it no line terminator that ends a line
\* (a CR or LF before it stands where a type byte is expected).
Stalls(view) ==
  \E i \in 1..Len(view) :
    /\ view[i] = NUL
    /\ \A j \in 1..(i - 1) :
         IsEol(view[j]) => \A k \in 1..j : IsEol(view[k])

\* The chunk given to the call that leads to the next state.
NextChunk == Chunks[fed'[Len(fed')]]

PageId == Max(CarryIds)
FullId == Max(TailIds)
FullRow == "<a href=\"gopher://h/0t\"><span class=\"text\">b</span></a><br/>\n"

\* The rows of a sequence of chunks that are PageId or FullId.
RECURSIVE PageRows(_)
PageRows(chunk_ids) ==
  IF chunk_ids = <<>> THEN <<>>
  ELSE (IF Head(chunk_ids) = PageId THEN <<"", FullRow>> ELSE <<FullRow>>)
         \o PageRows(Tail(chunk_ids))

\* C33: the lines received after an end-of-page line, in the same chunk
\* and in later ones, have their rows sent as any line has, and the bottom
\* of the page is sent by the calls with size 0 and by no other.
C33_SentinelGoesOn ==
  /\ (~faulted /\ \A i \in 1..Len(fed) : fed[i] \in {PageId, FullId}) =>
       RowPayloads(out) = PageRows(fed)
  /\ Cardinality(At(out, "bottom")) = Count("end")
  /\ last.op = "feed" => At(last.out, "bottom") = {}

\* The end-of-page line was received first, then the line that follows it
\* and one more chunk, and the end of the data was signalled.
C33_Witness ==
  /\ ~faulted
  /\ fed = <<PageId, FullId>>
  /\ RowPayloads(out) = <<"", FullRow, FullRow>>
  /\ last.op = "end"
  /\ Cardinality(At(out, "bottom")) = 1

\* The calls of gopher_generate_row() that returned true, among calls.
OkCalls(calls) == {i \in 1..Len(calls) : calls[i].ok}

\* C38: each call of the parser that returns true consumes two bytes or
\* more of the view it was given and leaves the rest, so the loop over a
\* view of n bytes makes at most n / 2 such calls, and it ends with a call
\* that returns false.
C38_LoopEnds ==
  (last.op = "feed" /\ ~faulted) =>
    /\ last.calls # <<>>
    /\ ~last.calls[Len(last.calls)].ok
    /\ OkCalls(last.calls) = 1..(Len(last.calls) - 1)
    /\ \A i \in OkCalls(last.calls) :
         /\ last.calls[i].adv >= 2
         /\ last.calls[i].size = last.calls[i].len - last.calls[i].adv
         /\ last.calls[i + 1].len = last.calls[i].size
    /\ Cardinality(OkCalls(last.calls)) <= last.calls[1].len \div 2

\* Two lines of two and three bytes in a view of five bytes: two calls
\* return true, the first having consumed two bytes.
C38_Witness ==
  /\ last.op = "feed" /\ ~faulted
  /\ fed = <<Min(CarryIds) + 2>>
  /\ Len(last.calls) = 3
  /\ last.calls[1] = [ok |-> TRUE, adv |-> 2, size |-> 3, len |-> 5]
  /\ last.calls[2] = [ok |-> TRUE, adv |-> 3, size |-> 0, len |-> 3]
  /\ ~last.calls[3].ok

\* C37: s->type changes in one place only, the return of 404 by
\* gopher_get_http_code() after its careful check on a type that is not
\* transcoded, where it becomes '1'; gopher_fetch_data() with any size,
\* gopher_probe_mime() and gopher_get_http_code() returning 400, 0 or 200
\* leave it as it is.
C37_TypeFrame ==
  [][ops' # ops =>
       /\ last'.op \in {"feed", "end", "probe"} => s'.type = s.type
       /\ (last'.op = "status" /\ last'.ret \in {400, 0, 200}) =>
            s'.type = s.type
       /\ (last'.op = "status" /\ last'.ret = 404
             /\ ~gopher_need_generate(s.type)) =>
            s'.type = GOPHER_TYPE_DIRECTORY
       /\ s'.type # s.type =>
            /\ last'.op = "status"
            /\ last'.ret = 404
            /\ ~gopher_need_generate(s.type)]_vars

\* The type of a session on a text file became '1' on a status of 404 and
\* is '1' still after a probe, a chunk and the end of the data.
C37_Witness ==
  /\ path = <<"/", "0", "/", "m">>
  /\ ops = <<"status", "probe", "feed", "end">>
  /\ s.type = GOPHER_TYPE_DIRECTORY
  /\ ~faulted

(***************************************************************************)
(* The curl fetcher on a gopher URL fetched through an HTTP proxy: the     *)
(* header lines of the proxy's response are handed to fetch_curl_header(), *)
(* curl holds the status of that response, and the transfer may end short  *)
(* of the length announced.                                                *)
(***************************************************************************)
MaxHeader == 1

\* The statuses curl may hold: none, and those of a response that is OK,
\* not modified, or asks for authentication.
ProxyCodes == {CURLINFO_HTTP_CODE, 200, 304, 401}

InitAbort ==
  \E p \in {<<"/", "1", "/", "m">>, <<"/", "0", "/", "m">>},
     code \in ProxyCodes :
    /\ path = p
    /\ env \in Envs
    /\ s = fetch_curl_setup_gopher(p, NoMime).s
    /\ f = [fetch_curl_setup_gopher(p, NoMime).f EXCEPT !.answer = code]
    /\ out = fetch_curl_setup_gopher(p, NoMime).out
    /\ faulted = FALSE
    /\ fed = <<>>
    /\ ops = <<>>
    /\ last = [op |-> "none", data |-> <<>>, ret |-> 0, out |-> <<>>,
               before |-> Before(gopher_state_create(p)), calls |-> <<>>,
               nomem |-> FALSE]
    /\ ids = CurlIds

\* curl hands a header line to fetch_curl_header(); the line is none of
\* those the function reads a value from.  The callback may abort the
\* fetch.
HeaderLine ==
  /\ MayCall("header", MaxHeader)
  /\ f.curl_handle /\ ~f.done /\ ~f.stopped
  /\ f.answer # CURLINFO_HTTP_CODE
  /\ Count("data") = 0
  /\ IF f.abort
     THEN /\ f' = [f EXCEPT !.stopped = TRUE]
          /\ last' = Call("header", <<>>, [ret |-> 0, out |-> <<>>],
                          <<>>, FALSE)
          /\ out' = out
     ELSE /\ out' = Append(out, Header("Server: p\r\n", "proxy"))
          /\ last' = Call("header", <<>>,
                          [ret |-> Len("Server: p\r\n"),
                           out |-> <<Header("Server: p\r\n", "proxy")>>],
                          <<>>, FALSE)
          /\ \E aborts \in BOOLEAN :
               f' = IF aborts THEN [f EXCEPT !.abort = TRUE] ELSE f
  /\ ops' = Append(ops, "header")
  /\ UNCHANGED <<path, env, s, faulted, fed, ids>>

NextAbort == Start \/ Abort \/ HeaderLine \/ Receive \/ Done

SpecAbort == InitAbort /\ [][NextAbort]_vars

\* C34: once f->abort is set, fetch_curl_header(), fetch_curl_data() and
\* fetch_curl_done() send no callback, whatever the result of the transfer.
C34_AbortIsSilent ==
  [][(f.abort /\ ops' # ops
        /\ ops'[Len(ops')] \in {"header", "data", "done"}) =>
       out' = out]_vars

\* The status that the first byte of a chunk stands for.
CodeOf(chunk) == IF chunk[1] = GOPHER_TYPE_ERROR THEN 404 ELSE 200

\* C35: for a fetch of a menu, fetch_set_http_code() is called once, by
\* the first call of fetch_curl_data(), with 404 when the first byte of its
\* chunk is '3' and 200 otherwise; the chunks received later change
\* nothing of it, whatever their first byte.
C35_StatusOnce ==
  gopher_need_generate(s.type) =>
    /\ Count("data") > 0 =>
         /\ Len(f.codes) = 1
         /\ f.codes[1] \in {200, 404}
         /\ f.http_code = f.codes[1]
    /\ fed # <<>> => f.codes = <<CodeOf(Chunks[fed[1]])>>

\* A menu whose first chunk began a line of type '1' and whose second
\* chunk began with '3': the status is 200.
C35_Witness ==
  /\ gopher_need_generate(s.type)
  /\ Len(fed) = 2
  /\ Chunks[fed[1]][1] = "1"
  /\ Chunks[fed[2]][1] = "3"
  /\ f.codes = <<200>>
  /\ f.http_code = 200

\* The places of the callbacks of a type among cbs.
OfType(cbs, type) == {i \in 1..Len(cbs) : cbs[i].type = type}

\* C36: when fetch_curl_done() is called with CURLE_OK for a fetch of a
\* menu that was not aborted, the bottom of the page is sent, once, and
\* FETCH_FINISHED is sent once at most, after it, with no FETCH_DATA
\* between them and no callback after; FETCH_FINISHED is sent whenever a
\* chunk was received or curl holds no status 304 or 401.
C36_FinishedLast ==
  (gopher_need_generate(s.type) /\ last.op = "done"
     /\ last.data = <<"CURLE_OK">> /\ ~f.abort) =>
    /\ Cardinality(At(out, "bottom")) = 1
    /\ Cardinality(OfType(out, "FETCH_FINISHED")) <= 1
    /\ \A i \in OfType(out, "FETCH_FINISHED") :
         /\ i = Len(out)
         /\ \A j \in At(out, "bottom") :
              /\ j < i
              /\ \A k \in (j + 1)..(i - 1) : out[k].type # "FETCH_DATA"
    /\ \A j \in At(out, "bottom") :
         \A k \in (j + 1)..Len(out) : out[k].type # "FETCH_DATA"
    /\ (Count("data") > 0 \/ f.answer \notin {304, 401}) =>
         /\ OfType(out, "FETCH_FINISHED") # {}
         /\ out[Len(out) - 1].gen = "bottom"

\* A menu was received in two chunks and the fetch completed: the rows,
\* the bottom of the page, then FETCH_FINISHED.
C36_Witness ==
  /\ gopher_need_generate(s.type)
  /\ ops = <<"start", "data", "data", "done">>
  /\ last.data = <<"CURLE_OK">>
  /\ ~f.abort
  /\ Len(RowPayloads(out)) = 2
  /\ out[Len(out)].type = "FETCH_FINISHED"
  /\ out[Len(out) - 1].gen = "bottom"
  /\ Cardinality(At(out, "bottom")) = 1

=============================================================================
